---------------------------- MODULE Spec2Model ----------------------------
(***************************************************************************)
(* Breakpoint / runtime-synchronisation subsystem of the SSB debugger.     *)
(*                                                                         *)
(* Two execution contexts are modelled: the emulator thread, which runs    *)
(* the asyncio loop hosting EmulatorThread._emu_cycle and the overlay      *)
(* refresh task, and the UI thread, which runs the MainController          *)
(* handlers.  A UI handler is one action; the blocking gateway calls it    *)
(* makes (threadsafe_emu) are served by the emulator loop, which is        *)
(* possible between two loop callbacks or while the opcode hook pumps the  *)
(* loop (EmulatorThread.run_one_pending_task).                             *)
(*                                                                         *)
(* The program state is held in one record per object.  Methods are        *)
(* operators from a world (the record of all objects) to a world, so that  *)
(* a handler is the composition of the methods it calls, in the order of   *)
(* the code.                                                               *)
(***************************************************************************)
EXTENDS Integers, Sequences, FiniteSets, TLC

\* ---------------------------------------------------------------- bounds
MaxHanger == 1
MaxOffset == 2
MaxScene == 2
MaxSaveSlot == 1

\* ------------------------------------------------------ program constants
NumSlots == 3

Hangers == 1..MaxHanger
Offsets == 1..MaxOffset
Scenes == 1..MaxScene
Slots == 1..NumSlots
SaveSlots == 1..MaxSaveSlot
Files == {"map01/script.ssb"}
NoFile == "(none)"
None == 0
\* A lock nobody holds, a thread object not yet known.
NoHolder == "(free)"
NoThread == "(none)"
\* The UI thread outside every EmulatorThread call.
Idle == [pc |-> "idle", op |-> "(none)", blocking |-> FALSE, raises |-> FALSE,
         display |-> 0]

VARIABLES
    emu,     \* the native emulator (DeSmuME), an opaque stepping service
    thr,     \* EmulatorThread: registered_main_loop, the loop's queue, its position
    mc,      \* MainController fields, the widgets it drives, the UI thread's position
    dbg,     \* DebuggerController: debug mode flag
    bps,     \* the BreakpointState objects alive
    table,   \* BreakpointManager: the set of (file, offset) breakpoints
    ges,     \* GroundEngineState
    ov,      \* DebugOverlayController
    ce,      \* CodeEditorController
    fs,      \* the savestate files of the config directory
    log,     \* what the last step did, in order (observation only)
    arg      \* the arguments of the last step's call (observation only)

vars == <<emu, thr, mc, dbg, bps, table, ges, ov, ce, fs, log, arg>>

NoArg == [hanger |-> None, offset |-> None, slot |-> None]

\* The world: every object, as one record.
World == [emu |-> emu, thr |-> thr, mc |-> mc, dbg |-> dbg, bps |-> bps,
          table |-> table, ges |-> ges, ov |-> ov, ce |-> ce, fs |-> fs,
          log |-> <<>>, arg |-> NoArg]

\* The step that leaves the world w.
Commit(w) ==
    /\ emu' = w.emu
    /\ thr' = w.thr
    /\ mc' = w.mc
    /\ dbg' = w.dbg
    /\ bps' = w.bps
    /\ table' = w.table
    /\ ges' = w.ges
    /\ ov' = w.ov
    /\ ce' = w.ce
    /\ fs' = w.fs
    /\ log' = w.log
    /\ arg' = w.arg

\* The initial world w.
Commit0(w) ==
    /\ emu = w.emu
    /\ thr = w.thr
    /\ mc = w.mc
    /\ dbg = w.dbg
    /\ bps = w.bps
    /\ table = w.table
    /\ ges = w.ges
    /\ ov = w.ov
    /\ ce = w.ce
    /\ fs = w.fs
    /\ log = w.log
    /\ arg = w.arg

Note(w, e) == [w EXCEPT !.log = Append(@, e)]

\* A step of which nothing is recorded.
Quiet(w) == w


\* ------------------------------------------------------------------------
\* The native emulator (desmume.emulator.DeSmuME), reached only through the
\* gateway.  mem stands for the whole machine state: a cycle advances it,
\* open and reset set it to the boot state 0, a savestate restores it.
emu_pause_native(w) == Note([w EXCEPT !.emu.running = FALSE], "emu.pause")
emu_resume_native(w) == Note([w EXCEPT !.emu.running = TRUE], "emu.resume")
emu_reset_native(w) == Note([w EXCEPT !.emu.mem = 0], "emu.reset")
emu_destroy_native(w) ==
    Note([w EXCEPT !.emu.destroyed = TRUE, !.emu.running = FALSE], "emu.destroy")
\* open(rom): loads the ROM; whether it leaves the emulator running is the
\* library's choice (auto).
emu_open_native(w, auto) ==
    Note([w EXCEPT !.emu.mem = 0, !.emu.running = auto], "emu.open")

\* EmulatorThread.coro_runner: a task that raises is printed as uncaught and
\* its future completes with None, so the blocked caller goes on.
TaskException == "Uncaught EmulatorThread task exception"

coro_runner_catches(w) == Note(w, TaskException)

\* The blocking gateway (threadsafe_emu) is served when the emulator loop
\* runs and is between two callbacks, or pumped by the halted opcode hook.
GatewayOpen == thr.alive /\ thr.pc # "cycle"

\* ------------------------------------------------------------------------
\* DebugOverlayController.break_pulled / break_released
overlay_break_pulled(w) == [w EXCEPT !.ov._refresh_cache = FALSE]

overlay_break_released(w) == [w EXCEPT !.ov._refresh_cache = TRUE]

\* ------------------------------------------------------------------------
\* BreakpointState (model.breakpoint_state): one object per halt.
Stopped(w) == {b \in w.bps : b.state = "stopped"}

is_stopped(w, k) == \E b \in w.bps : b.id = k /\ b.state = "stopped"

HooksOf(w, k) == IF \E b \in w.bps : b.id = k
                 THEN (CHOOSE b \in w.bps : b.id = k).hooks
                 ELSE <<>>

add_release_hook(w, k, h) ==
    [w EXCEPT !.bps = {IF b.id = k THEN [b EXCEPT !.hooks = Append(@, h)] ELSE b
                       : b \in @}]

SetBpState(w, k, st) ==
    [w EXCEPT !.bps = {IF b.id = k THEN [b EXCEPT !.state = st, !.hooks = <<>>] ELSE b
                       : b \in @}]

\* ------------------------------------------------------------------------
\* The release hooks.

\* GroundEngineState's release hook, paired with its break_pulled.
ges_break_released(w, k) == [w EXCEPT !.ges.breaked = None]

\* CodeEditorController.break_released
ce_break_released(w, k) ==
    [w EXCEPT !.ce.controls = {},
              !.ce.marks = {},
              !.ce._cached_active_halted_filename = NoFile,
              !.ce._cached_active_halted_opcode = None]

\* MainController.toggle_paused_debugging_features
toggle_paused_debugging_features(w, on_off) ==
    [w EXCEPT !.mc.paused_features = on_off]

\* MainController._set_buttons_running / _stopped / _paused
set_buttons_running(w) ==
    [w EXCEPT !.mc.btn_playstop = "img_stop", !.mc.btn_pause = "img_pause"]

set_buttons_stopped(w) ==
    [w EXCEPT !.mc.btn_playstop = "img_play", !.mc.btn_pause = "img_pause"]

set_buttons_paused(w) ==
    [w EXCEPT !.mc.btn_pause = "img_play2", !.mc.btn_playstop = "img_stop"]

write_info_bar(w, text) == [w EXCEPT !.mc.info_bar = text]

clear_info_bar(w) == [w EXCEPT !.mc.info_bar = ""]

\* A break_released that keeps the reference to the released state.
break_released_keeps_reference(w, k) ==
    LET w2 == set_buttons_running(w)
        w3 == toggle_paused_debugging_features(w2, FALSE)
        w4 == clear_info_bar(w3)
    IN  overlay_break_released(w4)

\* MainController.break_released
break_released(w, k) ==
    LET w1 == [w EXCEPT !.mc.breakpoint_state = None]
        w2 == set_buttons_running(w1)
        w3 == toggle_paused_debugging_features(w2, FALSE)
        w4 == clear_info_bar(w3)
    IN  overlay_break_released(w4)

RunHook(w, h, k) ==
    LET w1 == Note(w, h)
    IN  CASE h = "ges.break_released" -> ges_break_released(w1, k)
          [] h = "code_editor.break_released" -> ce_break_released(w1, k)
          [] h = "main.break_released" -> break_released(w1, k)

RECURSIVE FireHooks(_, _, _)
FireHooks(w, k, hs) ==
    IF hs = <<>> THEN w ELSE FireHooks(RunHook(w, hs[1], k), k, Tail(hs))

\* BreakpointState.resume: stopped -> released, then the release hooks in
\* registration order; the list is cleared by the transition.
resume(w, k) ==
    IF is_stopped(w, k)
    THEN FireHooks(Note(SetBpState(w, k, "released"), "resume"), k, HooksOf(w, k))
    ELSE w

\* BreakpointState.fail_hard: stopped -> hard-failed, then the release hooks.
fail_hard(w, k) ==
    IF is_stopped(w, k)
    THEN FireHooks(Note(SetBpState(w, k, "failed"), "fail_hard"), k, HooksOf(w, k))
    ELSE w

\* ------------------------------------------------------------------------
\* EmulatorThread.register_main_loop: arms the cycle chain unless it is armed.
\* A register_main_loop that does not look at registered_main_loop.
register_main_loop_unguarded(w) ==
    LET w1 == Note(w, "register_main_loop")
    IN  [w1 EXCEPT !.thr.pending = @ + 1, !.thr.registered_main_loop = TRUE]

\* It runs under start_lock and releases it on its last line only: a call
\* that finds no loop raises AttributeError and leaves the lock taken.
register_main_loop(w) ==
    LET w1 == Note(w, "register_main_loop")
    IN  IF ~w1.thr.registered_main_loop
        THEN IF w1.thr.loop = "none"
             THEN Note([w1 EXCEPT !.thr.start_lock = "ui"], "AttributeError")
             ELSE [w1 EXCEPT !.thr.pending = @ + 1,
                             !.thr.registered_main_loop = TRUE]
        ELSE w1

\* ------------------------------------------------------------------------
\* GroundEngineState (controller.ground_state): the mirror of the emulator's
\* script and entity tables.
GesEmpty == [running |-> FALSE,
             loaded_ssb_files |-> [h \in Hangers |-> NoFile],
             breaked |-> None,
             actors |-> <<>>, objects |-> <<>>, performers |-> <<>>, events |-> <<>>]

\* reset(): clears all collections.
ges_reset(w) == Note([w EXCEPT !.ges = GesEmpty], "ges.reset")

\* break_pulled(state): marks the state's hanger as breaked and registers the
\* paired release hook.
ges_break_pulled(w, k, hanger) ==
    add_release_hook([w EXCEPT !.ges.breaked = hanger], k, "ges.break_released")

\* ------------------------------------------------------------------------
\* The editor's notebook (Gtk.Notebook): ce.pages is the sequence of the
\* files shown, page number n being ce.pages[n + 1]; ce.current is the
\* current page number, -1 without pages.  A dict is the set of its
\* <<key, value>> pairs.
page_num(w, filename) ==
    (CHOOSE i \in 1..Len(w.ce.pages) : w.ce.pages[i] = filename) - 1

insert_page(w, filename, position) ==
    [w EXCEPT !.ce.pages = SubSeq(@, 1, position) \o <<filename>>
                              \o SubSeq(@, position + 1, Len(@))]

\* remove_page: the pages behind move up; a removed current page hands over
\* to the page behind it, or to the one before it when it was the last.
remove_page(w, pnum) ==
    LET n == Len(w.ce.pages)
        cur == w.ce.current
    IN  [w EXCEPT !.ce.pages = SubSeq(@, 1, pnum) \o SubSeq(@, pnum + 2, n),
                  !.ce.current = IF n = 1 THEN -1
                                 ELSE IF pnum < cur THEN cur - 1
                                 ELSE IF pnum = cur /\ pnum = n - 1 THEN cur - 1
                                 ELSE cur]

set_current_page(w, pnum) == [w EXCEPT !.ce.current = pnum]

Keys(d) == {e[1] : e \in d}

SetItem(d, k, v) == {e \in d : e[1] # k} \cup {<<k, v>>}

DelItem(d, k) == {e \in d : e[1] # k}

\* SSBEditorController.toggle_debugging_controls and halted_at_opcode.
toggle_debugging_controls(w, filename, on_off) ==
    [w EXCEPT !.ce.controls = IF on_off THEN @ \cup {filename} ELSE @ \ {filename}]

halted_at_opcode(w, filename, opcode_addr) ==
    [w EXCEPT !.ce.marks = {m \in @ : m[1] # filename}
                             \cup {<<filename, opcode_addr>>}]

\* CodeEditorController.break_pulled
ce_break_pulled(w, k, filename, opcode_addr) ==
    LET w1 == IF filename \in w.ce._open_editors
              THEN halted_at_opcode(toggle_debugging_controls(w, filename, TRUE),
                                    filename, opcode_addr)
              ELSE w
    IN  add_release_hook([w1 EXCEPT !.ce._cached_active_halted_filename = filename,
                                    !.ce._cached_active_halted_opcode = opcode_addr],
                         k, "code_editor.break_released")

\* An open that does not look at the cached halt.
open_without_cached_halt(w, filename) ==
    IF filename \in w.ce._open_editors
    THEN set_current_page(w, page_num(w, filename))
    ELSE LET w1 == Note([w EXCEPT !.ce.gutter = @ \cup {k \in w.table : k[1] = filename}],
                        "open")
             pnum == w1.ce.current + 1
             w3 == set_current_page(insert_page(w1, filename, pnum), pnum)
         IN  [w3 EXCEPT !.ce._open_editors = @ \cup {filename},
                        !.ce._open_editors_by_page_num = SetItem(@, pnum, filename)]

\* CodeEditorController.open: a new editor shows the breakpoints of its
\* file (ce.gutter); an open one is only brought to the front.
open(w, filename) ==
    IF filename \in w.ce._open_editors
    THEN set_current_page(w, page_num(w, filename))
    ELSE LET w1 == Note([w EXCEPT !.ce.gutter = @ \cup {k \in w.table : k[1] = filename}],
                        "open")
             w2 == IF w1.ce._cached_active_halted_filename = filename
                   THEN halted_at_opcode(
                            toggle_debugging_controls(w1, filename, TRUE),
                            filename, w1.ce._cached_active_halted_opcode)
                   ELSE w1
             pnum == w2.ce.current + 1
             w3 == set_current_page(insert_page(w2, filename, pnum), pnum)
         IN  [w3 EXCEPT !.ce._open_editors = @ \cup {filename},
                        !.ce._open_editors_by_page_num = SetItem(@, pnum, filename)]

\* SSBEditorController.save and destroy; on_ssb_editor_modified reports
\* has_changes.
save(w, filename) ==
    Note([w EXCEPT !.ce.has_changes = @ \ {filename}], "controller.save")

destroy(w, filename) ==
    [w EXCEPT !.ce.gutter = {k \in @ : k[1] # filename},
              !.ce.controls = @ \ {filename},
              !.ce.marks = {m \in @ : m[1] # filename},
              !.ce.has_changes = @ \ {filename}]

\* The answers of the dialog of _show_are_you_sure: the buttons Don't Save
\* (0), Save (1) and Cancel (Gtk.ResponseType.CANCEL).
Responses == {0, 1, -6}

ResponseName(response) ==
    CASE response = 0 -> "Don't Save"
      [] response = 1 -> "Save"
      [] OTHER -> "Cancel"

\* CodeEditorController.close_tab.  response: the answer to "Do you want to
\* save changes", asked when the editor has changes; closes: the result of
\* file_manager.close_in_editor.
close_tab(w, filename, response, closes) ==
    IF filename \in w.ce._open_editors
    THEN LET pnum == page_num(w, filename)
             asked == filename \in w.ce.has_changes
             w1 == IF asked
                   THEN Note(Note(Note(w, "close_tab"), "_show_are_you_sure"),
                             ResponseName(response))
                   ELSE Note(w, "close_tab")
             w2 == IF asked /\ response = 1 THEN save(w1, filename) ELSE w1
         IN  IF asked /\ response # 0
             THEN Note(w2, "return")
             ELSE IF ~closes
             THEN Note(w2, "close_in_editor refuses")
             ELSE LET w3 == destroy(remove_page(Note(w2, "remove_page"), pnum),
                                    filename)
                      w4 == [w3 EXCEPT !.ce._open_editors = @ \ {filename}]
                  IN  IF pnum \in Keys(w4.ce._open_editors_by_page_num)
                      THEN [w4 EXCEPT !.ce._open_editors_by_page_num =
                                          DelItem(@, pnum)]
                      ELSE Note(w4, "KeyError")
    ELSE w

\* CodeEditorController.focus_by_opcode_addr: opens the editor if need be.
focus_by_opcode_addr(w, filename) == open(w, filename)

\* ------------------------------------------------------------------------
\* MainController

\* An emu_is_running that reports the flag alone.
emu_is_running_ignores_halt(w) == w.mc._emu_is_running

\* The property emu_is_running: false while a held BreakpointState is stopped.
emu_is_running(w) ==
    IF w.mc.breakpoint_state # None /\ is_stopped(w, w.mc.breakpoint_state)
    THEN FALSE
    ELSE w.mc._emu_is_running

\* load_debugger_state: enables the paused views and syncs them.
load_debugger_state(w) == toggle_paused_debugging_features(w, TRUE)

\* emu_reset.  openOk: whether emu.open succeeds (else it raises inside its
\* task, where coro_runner catches it, and the handler for RuntimeError is
\* not reached); auto: the running state open leaves the emulator in.
emu_reset(w, openOk, auto) ==
    LET w1 == IF w.mc.breakpoint_state # None
              THEN fail_hard(w, w.mc.breakpoint_state)
              ELSE w
        w2 == ges_reset(w1)
        w3 == IF openOk THEN emu_open_native(w2, auto) ELSE coro_runner_catches(w2)
    IN  [w3 EXCEPT !.mc._emu_is_running = w3.emu.running]

\* An emu_resume that arms the cycle chain before it releases the halt.
emu_resume_registers_first(w) ==
    LET w1 == [w EXCEPT !.mc._stopped = FALSE]
        w2 == clear_info_bar(toggle_paused_debugging_features(w1, FALSE))
        w3 == set_buttons_running(w2)
        w4 == IF ~w3.mc._emu_is_running THEN emu_resume_native(w3) ELSE w3
        w5 == register_main_loop(Note(w4, "keypad_update"))
        w6 == IF w5.mc.breakpoint_state # None
              THEN resume(w5, w5.mc.breakpoint_state)
              ELSE w5
    IN  [w6 EXCEPT !.mc._emu_is_running = TRUE]

\* emu_resume
emu_resume(w) ==
    LET w1 == [w EXCEPT !.mc._stopped = FALSE]
        w2 == clear_info_bar(toggle_paused_debugging_features(w1, FALSE))
        w3 == set_buttons_running(w2)
        w4 == IF ~w3.mc._emu_is_running THEN emu_resume_native(w3) ELSE w3
        w5 == IF w4.mc.breakpoint_state # None
              THEN resume(w4, w4.mc.breakpoint_state)
              ELSE w4
        w6 == register_main_loop(Note(w5, "keypad_update"))
    IN  [w6 EXCEPT !.mc._emu_is_running = TRUE]

\* An emu_stop that resets the emulator under an active halt.
emu_stop_without_fail_hard(w) ==
    LET w1 == [w EXCEPT !.mc._stopped = TRUE]
        w3 == emu_pause_native(emu_reset_native(w1))
        w4 == [w3 EXCEPT !.mc._emu_is_running = FALSE]
        w5 == load_debugger_state(set_buttons_stopped(w4))
    IN  write_info_bar(w5, "The game is stopped.")

\* emu_stop
emu_stop(w) ==
    LET w1 == [w EXCEPT !.mc._stopped = TRUE]
        w2 == IF w1.mc.breakpoint_state # None
              THEN fail_hard(w1, w1.mc.breakpoint_state)
              ELSE w1
        w3 == emu_pause_native(emu_reset_native(w2))
        w4 == [w3 EXCEPT !.mc._emu_is_running = FALSE]
        w5 == load_debugger_state(set_buttons_stopped(w4))
    IN  write_info_bar(w5, "The game is stopped.")

\* An emu_pause that does not look at the BreakpointState.
emu_pause_during_halt(w) ==
    LET w1 == IF emu_is_running(w) THEN emu_pause_native(w) ELSE w
        w2 == write_info_bar(load_debugger_state(w1), "The game is paused.")
        w3 == set_buttons_paused(w2)
    IN  [w3 EXCEPT !.mc._emu_is_running = FALSE]

\* emu_pause
emu_pause(w) ==
    IF w.mc.breakpoint_state # None /\ is_stopped(w, w.mc.breakpoint_state)
    THEN w
    ELSE LET w1 == IF emu_is_running(w) THEN emu_pause_native(w) ELSE w
             w2 == write_info_bar(load_debugger_state(w1), "The game is paused.")
             w3 == set_buttons_paused(w2)
         IN  [w3 EXCEPT !.mc._emu_is_running = FALSE]

\* A break_pulled that does not take the reference to the new state.
break_pulled_without_reference(w, k, hanger, opcode_addr) ==
    LET ssb == w.ges.loaded_ssb_files[hanger]
        w1 == Note(w, "on_break_pulled")
        w2 == write_info_bar(set_buttons_paused(w1), "The debugger is halted.")
        w3 == ges_break_pulled(w2, k, hanger)
        w4 == focus_by_opcode_addr(ce_break_pulled(w3, k, ssb, opcode_addr), ssb)
        w5 == load_debugger_state(w4)
        w6 == overlay_break_pulled(w5)
    IN  add_release_hook(w6, k, "main.break_released")

\* break_pulled(state, srs): the observer of a halt.
break_pulled(w, k, hanger, opcode_addr) ==
    LET ssb == w.ges.loaded_ssb_files[hanger]
        w1 == Note([w EXCEPT !.mc.breakpoint_state = k], "on_break_pulled")
        w2 == write_info_bar(set_buttons_paused(w1), "The debugger is halted.")
        w3 == ges_break_pulled(w2, k, hanger)
        w4 == focus_by_opcode_addr(ce_break_pulled(w3, k, ssb, opcode_addr), ssb)
        w5 == load_debugger_state(w4)
        w6 == overlay_break_pulled(w5)
    IN  add_release_hook(w6, k, "main.break_released")

\* ------------------------------------------------------------------------
\* DebuggerController: the opcode hook (controller.debugger).

\* A fresh object; objects that are neither stopped nor referenced are gone.
Live(w) == {b \in w.bps : b.state = "stopped" \/ b.id = w.mc.breakpoint_state}

FreshId(w) == CHOOSE k \in 1..(Cardinality(w.bps) + 1) :
                  \A b \in Live(w) : b.id # k

NewBreakpointState(w, k, hanger) ==
    Note([w EXCEPT !.bps = Live(w) \cup
                     {[id |-> k, hanger_id |-> hanger, state |-> "stopped",
                       hooks |-> <<>>]}],
         "BreakpointState")

\* The halt decision for an opcode of the script loaded in the hanger.
hook(w0, hanger, offset) ==
    LET file == w0.ges.loaded_ssb_files[hanger]
        w == [w0 EXCEPT !.arg.hanger = hanger, !.arg.offset = offset]
    IN  IF ~w.dbg.debug_mode \/ <<file, offset>> \notin w.table
        THEN Note(w, "continue")
        ELSE IF Stopped(w) # {}
        THEN Note(w, "rejected")
        ELSE LET k == FreshId(w)
                 w1 == NewBreakpointState(w, k, hanger)
                 w2 == break_pulled(w1, k, hanger, offset)
             IN  Note([w2 EXCEPT !.thr.pc = "halted", !.thr.wait = k], "halt")

\* ------------------------------------------------------------------------
\* Savestates: per slot a native snapshot (.ds) and the GroundEngineState
\* document as JSON (.ge.json).

GES_VERSION == 1

\* GroundEngineState.serialize: the versioned document, pure data.
serialize(g) ==
    [version |-> GES_VERSION, running |-> g.running,
     loaded_ssb_files |-> g.loaded_ssb_files,
     actors |-> g.actors, objects |-> g.objects,
     performers |-> g.performers, events |-> g.events]

\* GroundEngineState.deserialize refuses a document of another version
\* before it changes anything.
compatible(doc) == doc.version = GES_VERSION

\* GroundEngineState.deserialize: replaces the state by the document's.
deserialize(w, doc) ==
    Note([w EXCEPT !.ges = [running |-> doc.running,
                            loaded_ssb_files |-> doc.loaded_ssb_files,
                            breaked |-> None,
                            actors |-> doc.actors, objects |-> doc.objects,
                            performers |-> doc.performers, events |-> doc.events]],
         "ges.deserialize")

\* json.dump / json.load: a text file holds a document when it is whole.
json_dump(doc) == [exists |-> TRUE, valid |-> TRUE, doc |-> doc]

json_readable(file) == file.exists /\ file.valid

NoJson == [exists |-> FALSE, valid |-> FALSE, doc |-> serialize(GesEmpty)]

TornJson == [exists |-> TRUE, valid |-> FALSE, doc |-> serialize(GesEmpty)]

NoDs == [exists |-> FALSE, mem |-> 0]

\* The titles of the dialogs savestate and loadstate show for a failure.
SaveError == "error: Unable to save savestate!"

LoadError == "error: Unable to load savestate!"

\* MainController.savestate(i).  jsonRes: "ok", or the open of the JSON file
\* fails, or the dump fails after the file was truncated; dsOk: whether the
\* emulator writes its snapshot (else save_file raises inside its task).
savestate(w, i, jsonRes, dsOk) ==
    LET w0 == Note([w EXCEPT !.arg.slot = i], "savestate")
    IN  IF jsonRes = "open_fails"
        THEN Note(w0, SaveError)
        ELSE IF jsonRes = "dump_fails"
        THEN Note([w0 EXCEPT !.fs[i].json = TornJson], SaveError)
        ELSE LET w1 == Note([w0 EXCEPT !.fs[i].json = json_dump(serialize(w0.ges))],
                            "json.dump")
             IN  IF dsOk
                 THEN Note([w1 EXCEPT !.fs[i].ds = [exists |-> TRUE,
                                                    mem |-> w1.emu.mem]],
                           "emu.savestate.save_file")
                 ELSE coro_runner_catches(w1)

\* emu.savestate.load_file(path) inside its task: restores the snapshot, or
\* raises when there is none.
load_file(w, i) ==
    IF w.fs[i].ds.exists
    THEN Note([w EXCEPT !.emu.mem = w.fs[i].ds.mem], "emu.savestate.load_file")
    ELSE coro_runner_catches(w)

\* A loadstate that restores the native snapshot only.
loadstate_without_deserialize(w, i, openOk, auto) ==
    LET w0 == Note([w EXCEPT !.arg.slot = i], "loadstate")
    IN  IF ~w0.fs[i].json.exists
        THEN w0
        ELSE LET was_running == w0.emu.running
                 w1 == emu_reset([w0 EXCEPT !.mc._stopped = FALSE], openOk, auto)
                 w2 == load_file(w1, i)
             IN  IF ~json_readable(w2.fs[i].json) \/ ~compatible(w2.fs[i].json.doc)
                 THEN Note(w2, LoadError)
                 ELSE LET w3 == Note(w2, "ges.deserialize")
                          w4 == [w3 EXCEPT !.mc._emu_is_running = w3.emu.running]
                          w5 == load_debugger_state(w4)
                      IN  IF was_running
                          THEN set_buttons_running(w5)
                          ELSE set_buttons_paused(w5)

\* A loadstate that does not look for the document before it starts.
loadstate_without_exists_check(w, i, openOk, auto) ==
    LET w0 == Note([w EXCEPT !.arg.slot = i], "loadstate")
        was_running == w0.emu.running
        w1 == emu_reset([w0 EXCEPT !.mc._stopped = FALSE], openOk, auto)
        w2 == load_file(w1, i)
    IN  IF ~json_readable(w2.fs[i].json) \/ ~compatible(w2.fs[i].json.doc)
        THEN Note(w2, LoadError)
        ELSE LET w3 == deserialize(w2, w2.fs[i].json.doc)
                 w4 == [w3 EXCEPT !.mc._emu_is_running = w3.emu.running]
                 w5 == load_debugger_state(w4)
             IN  IF was_running
                 THEN set_buttons_running(w5)
                 ELSE set_buttons_paused(w5)

\* MainController.loadstate(i).  openOk, auto: as for emu_reset.
loadstate(w, i, openOk, auto) ==
    LET w0 == Note([w EXCEPT !.arg.slot = i], "loadstate")
    IN  IF ~w0.fs[i].json.exists
        THEN w0
        ELSE LET was_running == w0.emu.running
                 w1 == emu_reset([w0 EXCEPT !.mc._stopped = FALSE], openOk, auto)
                 w2 == load_file(w1, i)
             IN  IF ~json_readable(w2.fs[i].json) \/ ~compatible(w2.fs[i].json.doc)
                 THEN Note(w2, LoadError)
                 ELSE LET w3 == deserialize(w2, w2.fs[i].json.doc)
                          w4 == [w3 EXCEPT !.mc._emu_is_running = w3.emu.running]
                          w5 == load_debugger_state(w4)
                      IN  IF was_running
                          THEN set_buttons_running(w5)
                          ELSE set_buttons_paused(w5)

\* ------------------------------------------------------------------------
\* MainController.savestate(i) as the two threads run it.  The UI thread
\* serializes the GroundEngineState and dumps the document itself, then
\* submits save_file to the emulator loop and waits (mc.saving is the slot).
savestate_serialize(w, i, jsonRes) ==
    LET w0 == Note([w EXCEPT !.arg.slot = i], "savestate")
    IN  IF jsonRes = "open_fails"
        THEN Note(w0, SaveError)
        ELSE IF jsonRes = "dump_fails"
        THEN Note([w0 EXCEPT !.fs[i].json = TornJson], SaveError)
        ELSE Note([w0 EXCEPT !.fs[i].json = json_dump(serialize(w0.ges)),
                             !.mc.saving = i],
                  "json.dump")

\* The loop serves the submitted save_file; the UI thread goes on.
savestate_snapshot(w, dsOk) ==
    LET i == w.mc.saving
        w0 == [w EXCEPT !.arg.slot = i, !.mc.saving = None]
    IN  IF dsOk
        THEN Note([w0 EXCEPT !.fs[i].ds = [exists |-> TRUE, mem |-> w0.emu.mem]],
                  "emu.savestate.save_file")
        ELSE coro_runner_catches(w0)

\* ------------------------------------------------------------------------
\* DebugOverlayController

\* not_none
not_none(it) == SelectSeq(it, LAMBDA e : e # None)

\* get_bounding_box_camera of an entity at position e.
BBox(e) == <<e, e, e + 1, e + 1>>

BBoxes(it) == [n \in 1..Len(not_none(it)) |-> BBox(not_none(it)[n])]

\* A draw that refreshes the cache itself instead of leaving it to the task.
overlay_draw_rebuilds(w, display_id) ==
    IF display_id = 1 /\ w.ov.enabled
    THEN Note([w EXCEPT !.ov._cache_running = w.ges.running,
                        !.ov._actor_bbox_cache = BBoxes(w.ges.actors)],
              "draw boxes")
    ELSE w

\* A draw that submits a refresh task whenever refreshing is allowed, whether
\* one is registered or not.
overlay_draw_submits_again(w, display_id) ==
    IF display_id = 1 /\ w.ov.enabled
    THEN LET w1 == IF w.ov._refresh_cache
                   THEN Note([w EXCEPT !.ov._cache_redrawing_registered = TRUE,
                                       !.ov.queued = @ + 1],
                             "submit _update_cache")
                   ELSE w
         IN  IF w1.ov._cache_running THEN Note(w1, "draw boxes") ELSE w1
    ELSE w

\* draw(ctx, display_id), under debug_overlay_lock.
overlay_draw(w, display_id) ==
    IF display_id = 1 /\ w.ov.enabled
    THEN LET w1 == IF w.ov._refresh_cache /\ ~w.ov._cache_redrawing_registered
                   THEN Note([w EXCEPT !.ov._cache_redrawing_registered = TRUE,
                                       !.ov.queued = @ + 1],
                             "submit _update_cache")
                   ELSE w
         IN  IF w1.ov._cache_running THEN Note(w1, "draw boxes") ELSE w1
    ELSE w

\* An _update_cache that copies the entities of a stopped engine as well.
update_cache_always_rebuilds(w) ==
    LET g == w.ges
        w1 == Note([w EXCEPT !.ov.queued = @ - 1, !.ov._cache_running = g.running],
                   "_update_cache")
        w2 == [w1 EXCEPT !.ov._actor_bbox_cache = BBoxes(g.actors),
                         !.ov._object_bbox_cache = BBoxes(g.objects),
                         !.ov._perf_bbox_cache = BBoxes(g.performers),
                         !.ov._event_bbox_cache = BBoxes(g.events)]
    IN  IF w2.ov._refresh_cache
        THEN [w2 EXCEPT !.ov.sleeping = @ + 1]
        ELSE [w2 EXCEPT !.ov._cache_redrawing_registered = FALSE]

\* _update_cache(): one run of the refresh task, up to its sleep.
update_cache(w) ==
    LET g == w.ges
        w1 == Note([w EXCEPT !.ov.queued = @ - 1, !.ov._cache_running = g.running],
                   "_update_cache")
        w2 == IF w1.ov._cache_running
              THEN [w1 EXCEPT !.ov._actor_bbox_cache = BBoxes(g.actors),
                              !.ov._object_bbox_cache = BBoxes(g.objects),
                              !.ov._perf_bbox_cache = BBoxes(g.performers),
                              !.ov._event_bbox_cache = BBoxes(g.events)]
              ELSE w1
    IN  IF w2.ov._refresh_cache
        THEN [w2 EXCEPT !.ov.sleeping = @ + 1]
        ELSE [w2 EXCEPT !.ov._cache_redrawing_registered = FALSE]

\* The sleep of REDRAW_DELAY frame periods is over: the task resubmits itself.
update_cache_resubmit(w) ==
    Note([w EXCEPT !.ov.sleeping = @ - 1, !.ov.queued = @ + 1],
         "submit _update_cache")

\* ------------------------------------------------------------------------
\* An _emu_cycle that schedules its successor before it steps the emulator.
emu_cycle_begin_rearms_first(w) ==
    LET w1 == Note(w, "_emu_cycle")
    IN  IF w1.emu.running
        THEN [w1 EXCEPT !.thr.pc = "cycle"]
        ELSE [w1 EXCEPT !.thr.pending = @ - 1, !.thr.registered_main_loop = FALSE]

\* EmulatorThread._emu_cycle, up to emu.cycle() and after it.
emu_cycle_begin(w) ==
    LET w1 == Note([w EXCEPT !.thr.pending = @ - 1], "_emu_cycle")
    IN  IF w1.emu.running
        THEN [w1 EXCEPT !.thr.pc = "cycle"]
        ELSE [w1 EXCEPT !.thr.registered_main_loop = FALSE]

emu_cycle_end(w) ==
    Note([w EXCEPT !.thr.pending = @ + 1, !.thr.pc = "idle"], "call_later _emu_cycle")

\* What the emulated game does to the ground engine during a cycle.
EntitiesAt(g, s) ==
    [g EXCEPT !.running = TRUE,
              !.actors = <<s, None>>, !.objects = <<None, s + 1>>,
              !.performers = <<s>>, !.events = <<s, s + 1>>]

\* ------------------------------------------------------------------------
\* The state after MainController.__init__ and a successful open_rom, which
\* ends in emu_stop: the game is stopped, no cycle chain is armed.
NoSave == [ds |-> NoDs, json |-> NoJson]

InitWorld(debug_btn, disk) ==
    [emu |-> [running |-> FALSE, mem |-> 0, destroyed |-> FALSE,
              ticks |-> 0, frame |-> 0],
     thr |-> [registered_main_loop |-> FALSE, pending |-> 0, pc |-> "idle",
              wait |-> None, alive |-> TRUE,
              phase |-> "running", loop |-> "ready", _thread_instance |-> "emu",
              start_lock |-> NoHolder, queue |-> <<>>, future |-> "(none)",
              THREAD_DEBUG |-> FALSE,
              display_buffer_lock |-> NoHolder, fps_frame_count_lock |-> NoHolder,
              at |-> "idle",
              _display_buffer |-> 0,
              _fps_frame_count |-> 0, _fps_sec_start |-> 0, _fps |-> 0],
     mc |-> [_emu_is_running |-> FALSE, _stopped |-> TRUE,
             breakpoint_state |-> None,
             btn_playstop |-> "img_play", btn_pause |-> "img_pause",
             paused_features |-> TRUE, info_bar |-> "The game is stopped.",
             debug_btn |-> debug_btn, quit |-> FALSE, saving |-> None,
             at |-> Idle, _click |-> FALSE],
     dbg |-> [debug_mode |-> debug_btn, breakpoints_json |-> {}],
     bps |-> {},
     table |-> {},
     ges |-> GesEmpty,
     ov |-> [enabled |-> FALSE, _refresh_cache |-> TRUE, _cache_running |-> FALSE,
             _cache_redrawing_registered |-> FALSE,
             _actor_bbox_cache |-> <<>>, _object_bbox_cache |-> <<>>,
             _perf_bbox_cache |-> <<>>, _event_bbox_cache |-> <<>>,
             queued |-> 0, sleeping |-> 0, debug_overlay_lock |-> NoHolder],
     ce |-> [_cached_active_halted_filename |-> NoFile,
             _cached_active_halted_opcode |-> None,
             _open_editors |-> {}, gutter |-> {},
             _open_editors_by_page_num |-> {},
             pages |-> <<>>, current |-> -1,
             controls |-> {}, marks |-> {}, has_changes |-> {}],
     fs |-> disk,
     log |-> <<>>, arg |-> NoArg]

\* Savestates left in the config directory by earlier sessions: a complete
\* one, a native snapshot without its document, and one whose document was
\* written by another version of the debugger.
SavedGes ==
    EntitiesAt([GesEmpty EXCEPT !.loaded_ssb_files =
                                   [h \in Hangers |-> "map01/script.ssb"]], 1)

FullSave == [ds |-> [exists |-> TRUE, mem |-> 1],
             json |-> json_dump(serialize(SavedGes))]

DsOnly == [ds |-> [exists |-> TRUE, mem |-> 1], json |-> NoJson]

OldSave == [ds |-> [exists |-> TRUE, mem |-> 1],
            json |-> json_dump([serialize(SavedGes) EXCEPT !.version = GES_VERSION - 1])]

Disk(first) == [i \in Slots |-> IF i = 1 THEN first
                                ELSE IF i = 2 THEN DsOnly ELSE OldSave]

Init ==
    \E b \in BOOLEAN, first \in {FullSave, NoSave} :
        Commit0(InitWorld(b, Disk(first)))

\* ------------------------------------------------------------------------
\* The emulator thread.

\* The loop runs a pending _emu_cycle callback.
EmuCycleBegin ==
    /\ thr.alive /\ thr.pc = "idle" /\ thr.pending > 0
    /\ Commit(emu_cycle_begin(World))

\* emu.cycle() executes a script opcode: the hook decides whether to halt.
EmuOpcode ==
    /\ thr.alive /\ thr.pc = "cycle"
    /\ \E h \in Hangers, o \in Offsets :
          /\ ges.loaded_ssb_files[h] # NoFile
          /\ Commit(hook(World, h, o))

\* emu.cycle() loads a script into a hanger, or unloads it.
EmuSsbLoad ==
    /\ thr.alive /\ thr.pc = "cycle"
    /\ \E h \in Hangers, f \in Files \cup {NoFile} :
          /\ ges.loaded_ssb_files[h] # f
          /\ Commit(Note([World EXCEPT !.ges.loaded_ssb_files[h] = f], "ssb load"))

\* emu.cycle() moves the entities of the ground engine.
EmuEntities ==
    /\ thr.alive /\ thr.pc = "cycle"
    /\ \E s \in Scenes :
          /\ ges # EntitiesAt(ges, s)
          /\ Commit(Note([World EXCEPT !.ges = EntitiesAt(@, s)], "entities"))

\* emu.cycle() returns; the next cycle is scheduled.
EmuCycleEnd ==
    /\ thr.alive /\ thr.pc = "cycle"
    /\ Commit(emu_cycle_end(World))

\* The halted hook sees its BreakpointState released and returns into the cycle.
HookReturn ==
    /\ thr.alive /\ thr.pc = "halted"
    /\ ~is_stopped(World, thr.wait)
    /\ Commit(Note([World EXCEPT !.thr.pc = "cycle", !.thr.wait = None],
                   "hook returns"))

\* The loop runs the overlay refresh task.
UpdateCache ==
    /\ thr.alive /\ thr.pc # "cycle" /\ ov.queued > 0
    /\ Commit(update_cache(World))

UpdateCacheWakes ==
    /\ thr.alive /\ thr.pc # "cycle" /\ ov.sleeping > 0
    /\ Commit(update_cache_resubmit(World))

\* ------------------------------------------------------------------------
\* The UI thread: one action per handler.
UiReady == ~mc.quit /\ mc.saving = None /\ GatewayOpen

on_emulator_controls_playstop_clicked(w, openOk, auto) ==
    LET w0 == Note(w, "playstop_clicked")
    IN  IF ~w0.mc._stopped
        THEN emu_stop(w0)
        ELSE emu_resume(emu_reset(w0, openOk, auto))

\* A pause handler that pauses whatever the state is.
pause_clicked_always_pauses(w) == emu_pause(Note(w, "pause_clicked"))

on_emulator_controls_pause_clicked(w) ==
    LET w0 == Note(w, "pause_clicked")
    IN  IF emu_is_running(w0) /\ w0.thr.registered_main_loop
        THEN emu_pause(w0)
        ELSE IF ~w0.mc._stopped THEN emu_resume(w0) ELSE w0

on_emulator_controls_reset_clicked(w, openOk, auto) ==
    emu_resume(emu_reset(Note(w, "reset_clicked"), openOk, auto))

\* File > Open.  The handler pauses the emulator through the gateway, then
\* shows the file chooser; open_rom, on success, ends in emu_stop and on
\* failure in an error dialog.
\*   response   what the file chooser returns
\*   romOk      whether open_rom's try block succeeds
on_menu_open_activate(w, response, romOk) ==
    LET w0 == emu_pause_native(Note(w, "menu_open_activate"))
    IN  IF response = "OK"
        THEN IF romOk THEN emu_stop(Note(w0, "open_rom"))
                      ELSE Note(Note(w0, "open_rom"), "error: Unable to load")
        ELSE w0

\* A debug mode handler that turns the debugger on whatever the setting is.
debug_mode_toggled_always_on(w) ==
    [w EXCEPT !.dbg.debug_mode = TRUE]

on_debug_settings_debug_mode_toggled(w) ==
    [w EXCEPT !.dbg.debug_mode = w.mc.debug_btn]

on_debug_settings_overlay_toggled(w, state) ==
    [w EXCEPT !.ov.enabled = state]

\* on_main_window_destroy / gtk_main_quit
on_main_window_destroy(w) ==
    LET w0 == Note(w, "window_destroy")
        w1 == IF w0.mc.breakpoint_state # None
              THEN fail_hard(w0, w0.mc.breakpoint_state)
              ELSE w0
        w2 == emu_destroy_native(w1)
    IN  Note([w2 EXCEPT !.thr.alive = FALSE, !.mc.quit = TRUE], "emu_thread.stop")

PlayStopClicked ==
    /\ UiReady
    /\ \E openOk \in BOOLEAN, auto \in BOOLEAN :
          Commit(on_emulator_controls_playstop_clicked(World, openOk, auto))

PauseClicked ==
    /\ UiReady
    /\ Commit(on_emulator_controls_pause_clicked(World))

ResetClicked ==
    /\ UiReady
    /\ \E openOk \in BOOLEAN, auto \in BOOLEAN :
          Commit(on_emulator_controls_reset_clicked(World, openOk, auto))

SaveStateClicked ==
    /\ UiReady
    /\ \E i \in SaveSlots, jsonRes \in {"ok", "open_fails", "dump_fails"},
          dsOk \in BOOLEAN :
          Commit(savestate(World, i, jsonRes, dsOk))

LoadStateClicked ==
    /\ UiReady
    /\ \E i \in Slots, openOk \in BOOLEAN, auto \in BOOLEAN :
          Commit(loadstate(World, i, openOk, auto))

DebugModeToggled ==
    /\ ~mc.quit
    /\ Commit(Quiet(on_debug_settings_debug_mode_toggled(
                       [World EXCEPT !.mc.debug_btn = ~@])))

OverlayToggled ==
    /\ ~mc.quit
    /\ Commit(Quiet(on_debug_settings_overlay_toggled(World, ~ov.enabled)))

\* CodeEditorController.on_breakpoint_added / on_breakpoint_removed, the
\* callbacks registered in init: they reach the editor of the file when one
\* is open (ce.gutter: the breakpoint marks the open editors show).
on_breakpoint_added_without_editor(w, filename, opcode_offset) ==
    [Note(w, "on_breakpoint_added")
        EXCEPT !.ce.gutter = @ \cup {<<filename, opcode_offset>>}]

on_breakpoint_added(w, filename, opcode_offset) ==
    LET w1 == Note(w, "on_breakpoint_added")
    IN  IF filename \in w1.ce._open_editors
        THEN [w1 EXCEPT !.ce.gutter = @ \cup {<<filename, opcode_offset>>}]
        ELSE w1

on_breakpoint_removed(w, filename, opcode_offset) ==
    LET w1 == Note(w, "on_breakpoint_removed")
    IN  IF filename \in w1.ce._open_editors
        THEN [w1 EXCEPT !.ce.gutter = @ \ {<<filename, opcode_offset>>}]
        ELSE w1

\* BreakpointManager.add / remove: the mapping, its file
\* (dbg.breakpoints_json), then the registered callback.
add(w, filename, opcode_offset) ==
    LET w1 == [w EXCEPT !.table = @ \cup {<<filename, opcode_offset>>}]
        w2 == [w1 EXCEPT !.dbg.breakpoints_json = w1.table]
    IN  on_breakpoint_added(w2, filename, opcode_offset)

remove(w, filename, opcode_offset) ==
    LET w1 == [w EXCEPT !.table = @ \ {<<filename, opcode_offset>>}]
        w2 == [w1 EXCEPT !.dbg.breakpoints_json = w1.table]
    IN  on_breakpoint_removed(w2, filename, opcode_offset)

\* BreakpointManager.add / remove, from the editor gutter.
AddBreakpoint ==
    /\ ~mc.quit
    /\ \E f \in Files, o \in Offsets :
          /\ <<f, o>> \notin table
          /\ Commit(add(World, f, o))

RemoveBreakpoint ==
    /\ ~mc.quit
    /\ \E k \in table :
          Commit(remove(World, k[1], k[2]))

WindowDestroy ==
    /\ UiReady
    /\ Commit(on_main_window_destroy(World))

\* The renderer draws a screen.
Draw ==
    /\ ~mc.quit
    /\ \E d \in {0, 1} : Commit(overlay_draw(Note(World, "draw"), d))

\* ------------------------------------------------------------------------
Next ==
    \/ EmuCycleBegin
    \/ EmuOpcode
    \/ EmuSsbLoad
    \/ EmuCycleEnd
    \/ HookReturn
    \/ PlayStopClicked
    \/ PauseClicked
    \/ ResetClicked
    \/ LoadStateClicked
    \/ DebugModeToggled
    \/ AddBreakpoint
    \/ RemoveBreakpoint
    \/ WindowDestroy

Spec == Init /\ [][Next]_vars

\* ------------------------------------------------------------------------
\* The breakpoints of an earlier session, loaded from the persistence file
\* when the ROM is opened.
PersistedTable == {<<"map01/script.ssb", 1>>}

\* The overlay: the renderer draws, the refresh task runs on the emulator
\* loop, the game moves its entities and halts at breakpoints.
InitOverlay ==
    Commit0([InitWorld(TRUE, Disk(NoSave)) EXCEPT
                !.table = PersistedTable,
                !.dbg.breakpoints_json = PersistedTable])

NextOverlay ==
    \/ EmuCycleBegin
    \/ EmuSsbLoad
    \/ EmuEntities
    \/ EmuOpcode
    \/ EmuCycleEnd
    \/ HookReturn
    \/ PlayStopClicked
    \/ PauseClicked
    \/ OverlayToggled
    \/ Draw
    \/ UpdateCache
    \/ UpdateCacheWakes

SpecOverlay == InitOverlay /\ [][NextOverlay]_vars

\* ------------------------------------------------------------------------
\* Savestates: the game runs, the user saves and loads slots.  The
\* config directory starts with an empty first slot.
InitSave ==
    Commit0([InitWorld(TRUE, Disk(NoSave)) EXCEPT
                !.table = PersistedTable,
                !.dbg.breakpoints_json = PersistedTable])

NextSave ==
    \/ EmuCycleBegin
    \/ EmuSsbLoad
    \/ EmuCycleEnd
    \/ PlayStopClicked
    \/ PauseClicked
    \/ SaveStateClicked
    \/ LoadStateClicked

SpecSave == InitSave /\ [][NextSave]_vars

\* ------------------------------------------------------------------------
\* Reading the record of a step.
Count(l, e) == Cardinality({n \in 1..Len(l) : l[n] = e})

Has(l, e) == \E n \in 1..Len(l) : l[n] = e

\* The position of the first e in l, 0 when there is none.
Pos(l, e) == IF Has(l, e)
             THEN CHOOSE n \in 1..Len(l) : l[n] = e /\ \A m \in 1..(n - 1) : l[m] # e
             ELSE 0

Handler(l) == IF l = <<>> THEN "" ELSE l[1]

ReleaseHooks == {"ges.break_released", "code_editor.break_released",
                 "main.break_released"}

\* The release hooks a step fired, in order.
Fired(l) == SelectSeq(l, LAMBDA e : e \in ReleaseHooks)

NoDuplicates(l) == \A m, n \in 1..Len(l) : l[m] = l[n] => m = n

\* The cycle chain is alive: a cycle is scheduled or in progress.
ChainAlive(t) == t.pending >= 1 \/ t.pc \in {"cycle", "halted"}

\* An opcode event of hanger h at offset o is this step.
OpcodeEvent(h, o) ==
    /\ thr.alive /\ thr.pc = "cycle"
    /\ ges.loaded_ssb_files[h] # NoFile
    /\ Commit(hook(World, h, o))

\* ------------------------------------------------------------------------
\* C1: an opcode event at a (file, offset) of the Breakpoint Table, with debug
\* mode on and no active halt, halts: exactly one BreakpointState is created,
\* stopped and carrying the event's hanger id, exactly one on_break_pulled is
\* delivered, and while a BreakpointState is stopped no _emu_cycle is scheduled
\* or runs on: the thread stays in the hook.
C1_HaltOnBreakpointHit ==
    [][ /\ \A h \in Hangers, o \in Offsets :
              ( /\ OpcodeEvent(h, o)
                /\ dbg.debug_mode
                /\ <<ges.loaded_ssb_files[h], o>> \in table
                /\ Stopped(World) = {} )
              => /\ Count(log', "BreakpointState") = 1
                 /\ Count(log', "on_break_pulled") = 1
                 /\ Has(log', "halt")
                 /\ Cardinality(Stopped(World')) = 1
                 /\ \A b \in Stopped(World') :
                       b.hanger_id = h /\ b \notin bps /\ thr'.wait = b.id
        /\ Stopped(World') # {} => thr'.pending = 0 /\ thr'.pc = "halted"
      ]_vars

\* C1's case: the hook has just halted at a breakpoint.
C1_Witness ==
    /\ log = <<"BreakpointState", "on_break_pulled", "halt">>
    /\ arg.hanger # None
    /\ thr.pc = "halted" /\ thr.registered_main_loop /\ emu.running
    /\ \E b \in bps : b.state = "stopped" /\ b.hanger_id = arg.hanger

C3_DebugOffContinues ==
    [][ /\ \A h \in Hangers, o \in Offsets :
              (OpcodeEvent(h, o) /\ ~mc.debug_btn)
              => /\ log' = <<"continue">>
                 /\ bps' = bps
                 /\ mc' = mc
                 /\ thr'.pc = "cycle"
        /\ dbg'.debug_mode = mc'.debug_btn
      ]_vars

\* C3's case: an opcode at a breakpoint was executed with debug mode off.
C3_Witness ==
    /\ arg.hanger # None
    /\ log = <<"continue">>
    /\ ~mc.debug_btn
    /\ <<ges.loaded_ssb_files[arg.hanger], arg.offset>> \in table

\* C4: resuming an active BreakpointState fires every registered release hook
\* exactly once, in registration order, the code editor's before the main
\* controller's, all of them before register_main_loop; afterwards the state
\* is released, the emulator runs and the cycle chain is alive.
C4_ResumeFiresHooksInOrder ==
    [][ (Has(log', "resume") /\ Stopped(World) # {})
        => LET hs == HooksOf(World, mc.breakpoint_state)
           IN  /\ Fired(log') = hs
               /\ NoDuplicates(hs)
               /\ Has(hs, "code_editor.break_released")
               /\ Has(hs, "main.break_released")
               /\ Pos(log', "code_editor.break_released")
                     < Pos(log', "main.break_released")
               /\ Pos(log', "resume") < Pos(log', "code_editor.break_released")
               /\ Pos(log', "main.break_released") < Pos(log', "register_main_loop")
               /\ Stopped(World') = {}
               /\ \A b \in bps' : b.id = mc.breakpoint_state => b.state = "released"
               /\ emu'.running /\ thr'.registered_main_loop /\ ChainAlive(thr')
      ]_vars

\* C4's case: the pause/resume control has resumed a halted emulator.
C4_Witness ==
    /\ Handler(log) = "pause_clicked"
    /\ Has(log, "resume") /\ Has(log, "main.break_released")
    /\ thr.pc = "halted" /\ Stopped(World) = {}

\* C5: fail_hard on an active BreakpointState fires exactly the release hooks
\* registered on it, each once; the state is hard-failed and no longer
\* stopped, the controller holds no reference to it, and the halted hook is
\* free to return, so that the clock can be resumed.
C5_FailHardReleases ==
    [][ (Has(log', "fail_hard") /\ Stopped(World) # {})
        => LET k == mc.breakpoint_state
               hs == HooksOf(World, k)
           IN  /\ Count(log', "fail_hard") = 1
               /\ Fired(log') = hs
               /\ NoDuplicates(hs)
               /\ Pos(log', "fail_hard") < Pos(log', "main.break_released")
               /\ \A b \in bps' : b.id = k => b.state = "failed" /\ b.hooks = <<>>
               /\ \E b \in bps' : b.id = k
               /\ Stopped(World') = {}
               /\ mc'.breakpoint_state = None
               /\ ~emu_is_running(World') = ~mc'._emu_is_running
               /\ thr'.pc = "halted" => ~is_stopped(World', thr'.wait)
      ]_vars

\* C5's case: a reset has hard-failed the active BreakpointState.
C5_Witness ==
    /\ Handler(log) = "reset_clicked"
    /\ Has(log, "fail_hard")
    /\ \E b \in bps : b.state = "failed"
    /\ thr.pc = "halted"

\* C6: every teardown (emu_reset, emu_stop, loadstate of a slot that has a
\* document, window destroy) started while a BreakpointState is active
\* hard-fails it before it resets, reopens or destroys the emulator and before
\* it resets the GroundEngineState, and leaves no BreakpointState stopped.
Teardowns == {"emu.open", "emu.reset", "emu.destroy", "ges.reset",
              "emu.savestate.load_file", "emu_thread.stop"}

C6_TeardownFailsHardFirst ==
    [][ (Stopped(World) # {} /\ \E e \in Teardowns : Has(log', e))
        => /\ Has(log', "fail_hard")
           /\ \A e \in Teardowns :
                 Has(log', e) => Pos(log', "fail_hard") < Pos(log', e)
           /\ Stopped(World') = {}
           /\ thr'.pc = "halted" => ~is_stopped(World', thr'.wait)
      ]_vars

\* C6's case: a savestate was loaded while the emulator was halted.
C6_Witness ==
    /\ Handler(log) = "loadstate"
    /\ Has(log, "fail_hard") /\ Has(log, "ges.deserialize")
    /\ Stopped(World) = {}

\* ------------------------------------------------------------------------
\* Savestates with the two threads apart: the UI thread writes the document
\* while the emulator loop goes on, and the loop takes the snapshot when it
\* comes to the submitted call.
SaveStateSerializes ==
    /\ ~mc.quit /\ mc.saving = None /\ thr.alive
    /\ \E i \in SaveSlots, jsonRes \in {"ok", "open_fails", "dump_fails"} :
          Commit(savestate_serialize(World, i, jsonRes))

SaveStateSnapshot ==
    /\ mc.saving # None /\ GatewayOpen
    /\ \E dsOk \in BOOLEAN : Commit(savestate_snapshot(World, dsOk))

NextSaveThreads ==
    \/ EmuCycleBegin
    \/ EmuSsbLoad
    \/ EmuCycleEnd
    \/ PlayStopClicked
    \/ PauseClicked
    \/ SaveStateSerializes
    \/ SaveStateSnapshot

SpecSaveThreads == InitSave /\ [][NextSaveThreads]_vars

\* ------------------------------------------------------------------------
\* The four bounding-box collections of the overlay cache.
Caches(o) == <<o._actor_bbox_cache, o._object_bbox_cache,
               o._perf_bbox_cache, o._event_bbox_cache>>

\* C7: between break_pulled() and break_released(), that is while
\* _refresh_cache is off, no step changes the four bounding-box collections
\* of the overlay cache, a run of a refresh task that was queued or sleeping
\* when break_pulled() was called included.
C7_CacheFrozenWhileHalted ==
    [][ (~ov._refresh_cache /\ ~ov'._refresh_cache) => Caches(ov') = Caches(ov) ]_vars

Program == <<emu, thr, mc, dbg, bps, table, ges, ov, ce, fs>>

MissingJsonLoad ==
    /\ Handler(log') = "loadstate"
    /\ ~fs[arg'.slot].json.exists

C10_FailedLoadKeepsGes ==
    [][ Has(log', LoadError) => ges' = ges ]_vars

\* ------------------------------------------------------------------------
\* C11: the two writes of a savestate are independent and a failure of
\* exactly one of them is reported, the other artifact being written and left
\* in place: when the document cannot be written and the snapshot can, the
\* snapshot is written; when the snapshot cannot be written, the document
\* stays; in both cases the error is shown.
C11_PartialFailureReported ==
    [][ \A i \in SaveSlots :
           /\ \A jsonRes \in {"open_fails", "dump_fails"} :
                 Commit(savestate(World, i, jsonRes, TRUE))
                 => /\ Has(log', SaveError)
                    /\ fs'[i].ds = [exists |-> TRUE, mem |-> emu.mem]
           /\ Commit(savestate(World, i, "ok", FALSE))
                 => /\ Has(log', SaveError)
                    /\ fs'[i].json = json_dump(serialize(ges))
      ]_vars

\* C12: the two artifacts of one savestate describe one emulator state:
\* between the serialization of the document and the snapshot no cycle runs
\* and the GroundEngineState does not change, so that the document written is
\* the serialization of the GroundEngineState the snapshot is taken in.
C12_SavePairIsOneState ==
    [][ mc.saving # None
        => /\ ~Has(log', "_emu_cycle")
           /\ ges' = ges
           /\ Has(log', "emu.savestate.save_file")
                 => fs'[arg'.slot].json.doc = serialize(ges')
      ]_vars

\* ------------------------------------------------------------------------
\* The life of the EmulatorThread: construction, start(), run(), the calls
\* the UI thread makes on it, the callbacks its loop runs, stop().
\*   thr.phase             new -> started -> running -> finished
\*   thr.loop              "none" until run() creates the event loop
\*   thr._thread_instance  NoThread until run() stores current_thread()
\*   thr.start_lock        the thread that took the module-level start_lock
\*   thr.queue             the callbacks handed to the loop, oldest first
\*   thr.future            the future the blocked UI thread waits on
\*   mc.at                 the UI thread's position inside a call
MaxQueue == 2

StopCallback == [kind |-> "stop", blocking |-> FALSE, raises |-> FALSE]

Task(blocking, raises) == [kind |-> "task", blocking |-> blocking, raises |-> raises]

Enqueue(w, cb) == [w EXCEPT !.thr.queue = Append(@, cb)]

\* EmulatorThread.emu (property), read by thread t.
emu_getter(w, t) ==
    IF w.thr.THREAD_DEBUG /\ t # w.thr._thread_instance
    THEN "RuntimeError"
    ELSE "self._emu"

read_emu(w, t) == Note(Note(w, "emu read by " \o t), emu_getter(w, t))

\* EmulatorThread.start without the lock.
start_without_lock(w) == Note([w EXCEPT !.thr.phase = "started"], "start")

\* EmulatorThread.start: takes start_lock, spawns the thread, returns.
start(w) ==
    Note([w EXCEPT !.thr.start_lock = "ui", !.thr.phase = "started"], "start")

\* EmulatorThread.run up to run_forever: the thread stores itself, reads the
\* emulator, creates the loop and only then releases start_lock.
run(w) ==
    LET w1 == [w EXCEPT !.thr._thread_instance = "emu"]
    IN  IF emu_getter(w1, "emu") = "RuntimeError"
        THEN Note([w1 EXCEPT !.thr.phase = "finished"], "RuntimeError")
        ELSE Note([w1 EXCEPT !.thr.loop = "ready", !.thr.start_lock = NoHolder,
                             !.thr.phase = "running"], "run")

\* EmulatorThread.stop, under start_lock.
stop(w) ==
    LET w1 == Note(w, "stop")
    IN  IF w1.thr.loop # "none" THEN Enqueue(w1, StopCallback) ELSE w1

\* EmulatorThread.run_task, under start_lock: run_coroutine_threadsafe on
\* self.loop.  It asks nothing about the thread or the loop; the lock is
\* released on its last line only.
run_task(w, task) ==
    IF w.thr.loop = "none"
    THEN Note(Note([w EXCEPT !.thr.start_lock = "ui"], "run_task"), "AttributeError")
    ELSE LET w1 == Note(Enqueue(w, task), "run_task")
         IN  IF task.blocking THEN [w1 EXCEPT !.thr.future = "pending"] ELSE w1

\* EmulatorThread.coro_runner around a task: the task's value, or None after
\* printing the task's exception.
coro_runner(w, task) ==
    LET w0 == IF task.kind = "destroy" THEN emu_destroy_native(Note(w, "task"))
                                       ELSE Note(w, "task")
        w1 == IF task.raises THEN coro_runner_catches(w0) ELSE w0
        res == IF task.raises THEN "None" ELSE "value"
    IN  IF task.blocking THEN [w1 EXCEPT !.thr.future = res] ELSE w1

\* The loop runs its oldest callback; loop.stop ends run_forever and run()
\* goes on to destroy the emulator.
loop_runs(w) ==
    LET cb == Head(w.thr.queue)
        w1 == [w EXCEPT !.thr.queue = Tail(@)]
    IN  IF cb.kind = "stop"
        THEN emu_destroy_native(Note([w1 EXCEPT !.thr.phase = "finished"], "loop.stop"))
        ELSE coro_runner(w1, cb)

\* The blocking gateway's caller, back from Future.result().
result(w) ==
    Note(Note([w EXCEPT !.mc.at = Idle, !.thr.future = "(none)"], "result"),
         "returns " \o w.thr.future)

\* The UI thread enters a call on the thread object (the gateway's blocking
\* and non-blocking forms both end in run_task).
enters(w, op, blocking, raises) ==
    Quiet([w EXCEPT !.mc.at = [pc |-> "acquire", op |-> op,
                               blocking |-> blocking, raises |-> raises,
                               display |-> 0]])

InitThread ==
    \E d \in BOOLEAN :
        LET w == InitWorld(FALSE, Disk(NoSave))
        IN  Commit0([w EXCEPT !.thr.phase = "new", !.thr.loop = "none",
                              !.thr._thread_instance = NoThread,
                              !.thr.THREAD_DEBUG = d])

\* init_emulator: the thread is started right after it is constructed.
ThreadStart ==
    /\ thr.phase = "new" /\ mc.at.pc = "idle" /\ thr.start_lock = NoHolder
    /\ Commit(start(World))

ThreadRun ==
    /\ thr.phase = "started"
    /\ Commit(run(World))

UiEnters ==
    /\ thr.phase # "new" /\ mc.at.pc = "idle"
    /\ \/ \E op \in {"stop", "register_main_loop"} :
             Commit(enters(World, op, FALSE, FALSE))
       \/ \E blocking \in BOOLEAN, raises \in BOOLEAN :
             Commit(enters(World, "run_task", blocking, raises))

\* start_lock.acquire() returns once the lock is free; the body follows.
UiStop ==
    /\ mc.at.pc = "acquire" /\ mc.at.op = "stop" /\ thr.start_lock = NoHolder
    /\ Len(thr.queue) < MaxQueue
    /\ Commit(stop([World EXCEPT !.mc.at = Idle]))

UiRegisterMainLoop ==
    /\ mc.at.pc = "acquire" /\ mc.at.op = "register_main_loop"
    /\ thr.start_lock = NoHolder
    /\ Commit(register_main_loop([World EXCEPT !.mc.at = Idle]))

UiRunTask ==
    /\ mc.at.pc = "acquire" /\ mc.at.op = "run_task" /\ thr.start_lock = NoHolder
    /\ Len(thr.queue) < MaxQueue
    /\ LET w == run_task(World, Task(mc.at.blocking, mc.at.raises))
       IN  Commit(IF mc.at.blocking /\ w.thr.future = "pending"
                  THEN [w EXCEPT !.mc.at.pc = "result"]
                  ELSE [w EXCEPT !.mc.at = Idle])

UiResult ==
    /\ mc.at.pc = "result" /\ thr.future # "pending"
    /\ Commit(result(World))

LoopRuns ==
    /\ thr.phase = "running" /\ thr.queue # <<>>
    /\ Commit(loop_runs(World))

UiReadsEmu ==
    /\ mc.at.pc = "idle"
    /\ Commit(read_emu(World, "ui"))

TaskReadsEmu ==
    /\ thr.phase = "running"
    /\ Commit(read_emu(World, "emu"))

NextThread ==
    \/ ThreadStart
    \/ ThreadRun
    \/ UiEnters
    \/ UiStop
    \/ UiRegisterMainLoop
    \/ UiRunTask
    \/ UiResult
    \/ LoopRuns
    \/ UiReadsEmu
    \/ TaskReadsEmu

SpecThread == InitThread /\ [][NextThread]_vars

\* C13: every read of EmulatorThread.emu by a thread other than the emulator
\* thread ends in an error and never hands out the handle; every read by
\* the emulator thread returns the handle.
C13_ForeignReadFailsFast ==
    [][ /\ Has(log', "emu read by ui")
           => Has(log', "RuntimeError") /\ ~Has(log', "self._emu")
        /\ Has(log', "emu read by emu") => Has(log', "self._emu")
      ]_vars

\* The steps that run on the UI thread: the GTK signal handlers.  What such
\* a step does on the emulator thread it does inside a gateway call, and
\* those are the native emulator operations only.
UiHandlers == {"playstop_clicked", "pause_clicked", "reset_clicked",
               "loadstate", "savestate", "window_destroy"}

ThroughGateway == {"emu.pause", "emu.resume", "emu.reset", "emu.open",
                   "emu.savestate.load_file", "emu.savestate.save_file",
                   "keypad_update", TaskException}

\* C14: GroundEngineState.reset and GroundEngineState.deserialize never run
\* on a thread other than the emulator thread: a step of the UI thread runs
\* them inside a gateway call or not at all.
C14_GesMutatedOnEmulatorThread ==
    [][ Handler(log') \in UiHandlers
        => \A e \in {"ges.reset", "ges.deserialize"} :
              Has(log', e) => e \in ThroughGateway
      ]_vars

\* The _emu_cycle chains of the emulator loop: the callbacks queued by
\* register_main_loop or call_later, and the one being run.
Chains == thr.pending + (IF thr.pc \in {"cycle", "halted"} THEN 1 ELSE 0)

\* C15: whatever register_main_loop calls, pauses and resumes came before,
\* at most one _emu_cycle chain is queued or running, and none is while
\* registered_main_loop is off.
C15_OneCycleChain ==
    /\ Chains <= 1
    /\ ~thr.registered_main_loop => Chains = 0

\* A resume that called register_main_loop while the chain was inside a
\* cycle (halted in the opcode hook): nothing was queued.
C15_Witness ==
    /\ Has(log, "register_main_loop")
    /\ thr.pc = "halted" /\ thr.registered_main_loop /\ thr.pending = 0

\* The bodies of stop, register_main_loop and run_task: the code that reads
\* self.loop.
ReachesLoop(l) ==
    Has(l, "stop") \/ Has(l, "register_main_loop") \/ Has(l, "run_task")

\* C16 as the specification states it: start() returns only once the
\* emulator thread has created its event loop.
C16_StartBlocksUntilLoop ==
    [][ Has(log', "start") => thr'.loop # "none" ]_vars

\* C16: start() returns at once with start_lock taken, the emulator thread
\* releases the lock after it has created its loop, and a stop,
\* register_main_loop or run_task call made after start() waits for the
\* lock, so its body never runs before the loop exists.
C16_CallsWaitForLoop ==
    [][ /\ Has(log', "start")
           => thr'.start_lock = "ui" /\ thr'.loop = "none"
        /\ thr.loop = "none" /\ thr'.loop # "none"
           => Has(log', "run") /\ thr'.start_lock = NoHolder
        /\ ReachesLoop(log')
           => thr.loop # "none" /\ ~Has(log', "AttributeError")
      ]_vars

\* The UI thread is inside such a call, waiting, and there is no loop yet.
C16_Witness ==
    /\ mc.at.pc = "acquire" /\ mc.at.op = "run_task"
    /\ thr.start_lock = "ui" /\ thr.loop = "none" /\ thr.phase = "started"

\* C17: once stop() has ended the emulator loop, a blocking gateway call
\* fails with "gateway closed" and leaves the caller free, and a
\* non-blocking call is dropped with a warning: nothing is queued.
C17_GatewayClosed ==
    [][ (thr.phase = "finished" /\ Has(log', "run_task"))
        => /\ thr'.queue = thr.queue
           /\ mc'.at.pc = "idle"
           /\ IF mc.at.blocking THEN Has(log', "gateway closed")
                                ELSE Has(log', "warning")
      ]_vars

\* C18: the caller of a blocking gateway call is released only after the
\* task has run, with the task's value when it succeeded and with the
\* task's exception, never a normal None, when it failed.
C18_FailurePropagates ==
    [][ Has(log', "result")
        => /\ thr.future \in {"value", "None"}
           /\ IF mc.at.raises
              THEN Has(log', "raises") /\ ~Has(log', "returns None")
              ELSE Has(log', "returns value")
      ]_vars

\* ------------------------------------------------------------------------
\* The four module-level locks, one step per acquire and per release.
\*   thr.start_lock, thr.display_buffer_lock, thr.fps_frame_count_lock,
\*   ov.debug_overlay_lock   the thread that holds the lock, or NoHolder
\*   mc.at.pc, thr.at        where the UI thread and the emulator thread are
Locks == {"start_lock", "display_buffer_lock", "fps_frame_count_lock",
          "debug_overlay_lock"}

holder(w, l) ==
    CASE l = "start_lock" -> w.thr.start_lock
      [] l = "display_buffer_lock" -> w.thr.display_buffer_lock
      [] l = "fps_frame_count_lock" -> w.thr.fps_frame_count_lock
      [] l = "debug_overlay_lock" -> w.ov.debug_overlay_lock

SetHolder(w, l, t) ==
    CASE l = "start_lock" -> [w EXCEPT !.thr.start_lock = t]
      [] l = "display_buffer_lock" -> [w EXCEPT !.thr.display_buffer_lock = t]
      [] l = "fps_frame_count_lock" -> [w EXCEPT !.thr.fps_frame_count_lock = t]
      [] l = "debug_overlay_lock" -> [w EXCEPT !.ov.debug_overlay_lock = t]

\* Lock.acquire by thread t (it returns when the lock is free) and
\* Lock.release.
acquire(w, l, t) == SetHolder(w, l, t)

release(w, l) == SetHolder(w, l, NoHolder)

\* The locks thread t holds.
Held(t) == {l \in Locks : holder(World, l) = t}

\* DebugOverlayController.draw hands _update_cache to the emulator thread.
Submits(w) ==
    /\ w.mc.at.display = 1 /\ w.ov.enabled
    /\ w.ov._refresh_cache /\ ~w.ov._cache_redrawing_registered

\* draw, from the gateway call inside it to its end: the coroutine is
\* queued under start_lock, which run_task then releases.
draw_submitted(w) ==
    release(overlay_draw(w, w.mc.at.display), "start_lock")

\* draw returns: @synchronized releases debug_overlay_lock.
draw_leaves(w) ==
    LET w1 == IF w.mc.at.pc = "draw" THEN overlay_draw(w, w.mc.at.display) ELSE w
    IN  release([w1 EXCEPT !.mc.at = Idle], "debug_overlay_lock")

\* An _update_cache that leaves its with block without releasing the lock.
update_cache_keeps_lock(w) == [update_cache(w) EXCEPT !.thr.at = "idle"]

\* _update_cache, from the rebuild to the end of its with block.
update_cache_leaves(w) ==
    release([update_cache(w) EXCEPT !.thr.at = "idle"], "debug_overlay_lock")

InitLocks ==
    \E enabled \in BOOLEAN :
        Commit0([InitWorld(FALSE, Disk(NoSave)) EXCEPT !.ov.enabled = enabled])

\* ---- the UI thread (GTK main loop, draw signals included)
DrawEnters ==
    /\ ~mc.quit /\ mc.at.pc = "idle" /\ ov.debug_overlay_lock = NoHolder
    /\ \E d \in {0, 1} :
          Commit(Note(acquire([World EXCEPT !.mc.at.pc = "draw",
                                            !.mc.at.display = d],
                              "debug_overlay_lock", "ui"), "draw"))

DrawTakesStartLock ==
    /\ mc.at.pc = "draw" /\ Submits(World) /\ thr.start_lock = NoHolder
    /\ Commit(Note(acquire([World EXCEPT !.mc.at.pc = "draw.run_task"],
                           "start_lock", "ui"), "run_task"))

DrawSubmitted ==
    /\ mc.at.pc = "draw.run_task"
    /\ Commit(draw_submitted([World EXCEPT !.mc.at.pc = "draw.paint"]))

DrawLeaves ==
    /\ \/ mc.at.pc = "draw" /\ ~Submits(World)
       \/ mc.at.pc = "draw.paint"
    /\ Commit(draw_leaves(World))

\* A gateway call from a signal handler: run_task and nothing around it.
GatewayTakesStartLock ==
    /\ ~mc.quit /\ mc.at.pc = "idle" /\ thr.start_lock = NoHolder
    /\ Commit(Note(acquire([World EXCEPT !.mc.at.pc = "run_task"],
                           "start_lock", "ui"), "run_task"))

GatewaySubmitted ==
    /\ mc.at.pc = "run_task"
    /\ Commit(Note(release([World EXCEPT !.mc.at = Idle], "start_lock"),
                   "submitted"))

\* display_buffer_as_rgbx() and current_frame_id, each @synchronized.
UiTakesLock ==
    /\ ~mc.quit /\ mc.at.pc = "idle"
    /\ \E l \in {"display_buffer_lock", "fps_frame_count_lock"} :
          /\ holder(World, l) = NoHolder
          /\ Commit(Note(acquire([World EXCEPT !.mc.at.pc = l], l, "ui"), l))

UiReleasesLock ==
    /\ mc.at.pc \in {"display_buffer_lock", "fps_frame_count_lock"}
    /\ Commit(Note(release([World EXCEPT !.mc.at = Idle], mc.at.pc), "read"))

LockedPlayStop == mc.at.pc = "idle" /\ thr.at = "idle" /\ PlayStopClicked

LockedPause == mc.at.pc = "idle" /\ thr.at = "idle" /\ PauseClicked

\* ---- the emulator thread: _emu_cycle and _update_cache
CycleTakesFpsLock ==
    /\ thr.alive /\ thr.at = "idle" /\ thr.pc = "idle" /\ thr.pending > 0
    /\ emu.running /\ thr.fps_frame_count_lock = NoHolder
    /\ Commit(acquire([emu_cycle_begin(World) EXCEPT !.thr.at = "fps"],
                      "fps_frame_count_lock", "emu"))

CycleCounted ==
    /\ thr.at = "fps"
    /\ Commit(Note(release([World EXCEPT !.thr.at = "stepping"],
                           "fps_frame_count_lock"), "emu.cycle"))

CycleTakesDisplayLock ==
    /\ thr.display_buffer_lock = NoHolder
    /\ \/ /\ thr.at = "stepping"
          /\ Commit(acquire([emu_cycle_end(World) EXCEPT !.thr.at = "display"],
                            "display_buffer_lock", "emu"))
       \/ /\ thr.alive /\ thr.at = "idle" /\ thr.pc = "idle" /\ thr.pending > 0
          /\ ~emu.running
          /\ Commit(acquire([emu_cycle_begin(World) EXCEPT !.thr.at = "display"],
                            "display_buffer_lock", "emu"))

CycleLeaves ==
    /\ thr.at = "display"
    /\ Commit(Note(release([World EXCEPT !.thr.at = "idle"],
                           "display_buffer_lock"), "display buffer"))

CacheTakesLock ==
    /\ thr.alive /\ thr.at = "idle" /\ thr.pc = "idle" /\ ov.queued > 0
    /\ ov.debug_overlay_lock = NoHolder
    /\ Commit(Note(acquire([World EXCEPT !.thr.at = "_update_cache"],
                           "debug_overlay_lock", "emu"), "with debug_overlay_lock"))

CacheLeaves ==
    /\ thr.at = "_update_cache"
    /\ Commit(update_cache_leaves(World))

CacheWakes ==
    /\ thr.alive /\ thr.at = "idle" /\ thr.pc = "idle" /\ ov.sleeping > 0
    /\ thr.start_lock = NoHolder
    /\ Commit(Note(acquire([World EXCEPT !.thr.at = "run_task"],
                           "start_lock", "emu"), "run_task"))

CacheResubmitted ==
    /\ thr.at = "run_task"
    /\ Commit(release([update_cache_resubmit(World) EXCEPT !.thr.at = "idle"],
                      "start_lock"))

UiLockSteps ==
    \/ DrawEnters
    \/ DrawTakesStartLock
    \/ DrawSubmitted
    \/ DrawLeaves
    \/ GatewayTakesStartLock
    \/ GatewaySubmitted
    \/ UiTakesLock
    \/ UiReleasesLock

EmuLockSteps ==
    \/ CycleTakesFpsLock
    \/ CycleCounted
    \/ CycleTakesDisplayLock
    \/ CycleLeaves
    \/ CacheTakesLock
    \/ CacheLeaves
    \/ CacheWakes
    \/ CacheResubmitted

NextLocks ==
    \/ UiLockSteps
    \/ EmuLockSteps
    \/ LockedPlayStop
    \/ LockedPause

SpecLocks == InitLocks /\ [][NextLocks]_vars

\* C19 as the specification states it: no thread ever holds two of the
\* four locks at the same time.
C19_NoTwoLocksHeld ==
    \A t \in {"ui", "emu"} : Cardinality(Held(t)) <= 1

\* C19: the emulator thread never holds two of the locks; the UI thread
\* holds two only inside draw, where it takes start_lock (run_task) while
\* it holds debug_overlay_lock; a thread inside a locked path can take its
\* next step, or waits for a lock whose holder can, so the two threads
\* never deadlock on the locks.
C19_LockOrder ==
    /\ Cardinality(Held("emu")) <= 1
    /\ Cardinality(Held("ui")) > 1
       => /\ Held("ui") = {"debug_overlay_lock", "start_lock"}
          /\ mc.at.pc = "draw.run_task"
    /\ mc.at.pc # "idle"
       => ENABLED UiLockSteps \/ (thr.at # "idle" /\ ENABLED EmuLockSteps)
    /\ thr.at # "idle"
       => ENABLED EmuLockSteps \/ (mc.at.pc # "idle" /\ ENABLED UiLockSteps)

\* draw is inside run_task and holds both locks while the emulator thread
\* is in the middle of a cycle.
C19_Witness ==
    /\ Held("ui") = {"debug_overlay_lock", "start_lock"}
    /\ mc.at.pc = "draw.run_task"
    /\ thr.at = "stepping"

\* The state of the emulation control, as MainController keeps it in
\* _stopped and _emu_is_running; a halt at a breakpoint lies on top of it.
ControlState(w) ==
    IF w.mc._stopped THEN "STOPPED"
    ELSE IF w.mc._emu_is_running THEN "RUNNING"
    ELSE "PAUSED"

Halted(w) == w.mc.breakpoint_state # None /\ is_stopped(w, w.mc.breakpoint_state)

set_touch_pos(w) == Note(w, "touch_set_pos")

on_main_window_key_press_event(w, key, typing, modifier) ==
    LET w0 == Note(w, "key_press_event")
        w1 == IF key THEN Note(w0, "key") ELSE w0
    IN  IF typing THEN w0
        ELSE IF ~modifier /\ key /\ emu_is_running(w1)
             THEN Note(w1, "keypad_add_key")
             ELSE w1

on_main_window_key_release_event(w, key) ==
    LET w0 == Note(w, "key_release_event")
        w1 == IF key THEN Note(w0, "key") ELSE w0
    IN  IF key /\ emu_is_running(w1) THEN Note(w1, "keypad_rm_key") ELSE w1

on_draw_button_press_event(w, display_id, button, button1) ==
    LET w0 == Note(w, "button_press_event")
    IN  IF button = 1 /\ display_id = 1 /\ emu_is_running(w0)
        THEN LET w1 == [w0 EXCEPT !.mc._click = TRUE]
             IN  IF button1 THEN set_touch_pos(w1) ELSE w1
        ELSE w0

on_draw_motion_notify_event(w, display_id, button1) ==
    LET w0 == Note(w, "motion_notify_event")
    IN  IF display_id = 1 /\ w0.mc._click /\ button1
        THEN set_touch_pos(w0)
        ELSE w0

on_draw_button_release_event(w, display_id) ==
    LET w0 == Note(w, "button_release_event")
    IN  IF display_id = 1 /\ w0.mc._click
        THEN Note([w0 EXCEPT !.mc._click = FALSE], "touch_release")
        ELSE w0

KeyPressed ==
    /\ ~mc.quit /\ mc.saving = None
    /\ \E key \in BOOLEAN, typing \in BOOLEAN, modifier \in BOOLEAN :
          Commit(on_main_window_key_press_event(World, key, typing, modifier))

KeyReleased ==
    /\ ~mc.quit /\ mc.saving = None
    /\ \E key \in BOOLEAN : Commit(on_main_window_key_release_event(World, key))

ButtonPressed ==
    /\ ~mc.quit /\ mc.saving = None
    /\ \E d \in {0, 1}, button \in {1, 3}, button1 \in BOOLEAN :
          Commit(on_draw_button_press_event(World, d, button, button1))

MotionNotified ==
    /\ ~mc.quit /\ mc.saving = None
    /\ \E d \in {0, 1}, button1 \in BOOLEAN :
          Commit(on_draw_motion_notify_event(World, d, button1))

ButtonReleased ==
    /\ ~mc.quit /\ mc.saving = None
    /\ \E d \in {0, 1} : Commit(on_draw_button_release_event(World, d))

InitInput ==
    Commit0([InitWorld(TRUE, Disk(NoSave)) EXCEPT
                !.table = PersistedTable,
                !.dbg.breakpoints_json = PersistedTable])

NextInput ==
    \/ EmuCycleBegin
    \/ EmuSsbLoad
    \/ EmuOpcode
    \/ EmuCycleEnd
    \/ HookReturn
    \/ PlayStopClicked
    \/ PauseClicked
    \/ KeyPressed
    \/ KeyReleased
    \/ ButtonPressed
    \/ MotionNotified
    \/ ButtonReleased

SpecInput == InitInput /\ [][NextInput]_vars

ToEmulatorInput == {"keypad_add_key", "keypad_rm_key", "touch_set_pos",
                    "touch_release"}

InputHandlers == {"key_press_event", "key_release_event", "button_press_event",
                  "motion_notify_event", "button_release_event"}

\* C21 as stated: while the emulator is halted at a breakpoint no key and
\* no touch input is forwarded to it.
C21_NoInputWhileHalted ==
    [][ (Halted(World) /\ Handler(log') \in InputHandlers)
        => \A e \in ToEmulatorInput : ~Has(log', e)
      ]_vars

\* C21: emu_is_running is false whenever a BreakpointState is held and
\* stopped, whatever _emu_is_running is; while halted no key is forwarded
\* and no touch is started, but a touch started before the halt still has
\* its moves and its release forwarded.
C21_HaltBlocksKeysAndNewTouches ==
    [][ /\ Halted(World') => ~emu_is_running(World')
        /\ (Halted(World) /\ Handler(log') \in InputHandlers)
           => /\ ~Has(log', "keypad_add_key") /\ ~Has(log', "keypad_rm_key")
              /\ mc'._click => mc._click
              /\ (\E e \in ToEmulatorInput : Has(log', e))
                 => /\ mc._click
                    /\ Handler(log') \in {"motion_notify_event",
                                          "button_release_event"}
      ]_vars

\* A mapped key was pressed during a halt that found _emu_is_running set.
C21_Witness ==
    /\ Halted(World) /\ mc._emu_is_running
    /\ Handler(log) = "key_press_event" /\ Has(log, "key")
    /\ ~Has(log, "keypad_add_key")

\* ------------------------------------------------------------------------
\* The Breakpoint Table and the editors that show it.
OpenEditor ==
    /\ ~mc.quit
    /\ \E f \in Files : f \notin ce._open_editors /\ Commit(open(World, f))

CloseEditor ==
    /\ ~mc.quit
    /\ \E f \in ce._open_editors, response \in Responses, closes \in BOOLEAN :
          Commit(close_tab(World, f, response, closes))

InitTable == Commit0(InitWorld(TRUE, Disk(NoSave)))

NextTable ==
    \/ AddBreakpoint
    \/ RemoveBreakpoint
    \/ OpenEditor
    \/ CloseEditor
    \/ EmuCycleBegin
    \/ EmuSsbLoad
    \/ EmuOpcode
    \/ EmuCycleEnd
    \/ HookReturn
    \/ PlayStopClicked
    \/ PauseClicked

SpecTable == InitTable /\ [][NextTable]_vars

\* C22: an add or remove of a key changes the table by that key, leaves
\* the breakpoint file equal to the new table, and calls the add (remove)
\* callback once within the same call and the other callback not at all;
\* the callback marks (unmarks) the key in the editor of the file when one
\* is open and changes nothing of the editors otherwise.
C22_TableNotifiesOnce ==
    [][ \A f \in Files, o \in Offsets :
           /\ Commit(add(World, f, o))
              => /\ table' = table \cup {<<f, o>>}
                 /\ dbg'.breakpoints_json = table'
                 /\ Count(log', "on_breakpoint_added") = 1
                 /\ Count(log', "on_breakpoint_removed") = 0
                 /\ IF f \in ce._open_editors
                    THEN ce'.gutter = ce.gutter \cup {<<f, o>>}
                    ELSE ce' = ce
           /\ Commit(remove(World, f, o))
              => /\ table' = table \ {<<f, o>>}
                 /\ dbg'.breakpoints_json = table'
                 /\ Count(log', "on_breakpoint_removed") = 1
                 /\ Count(log', "on_breakpoint_added") = 0
                 /\ IF f \in ce._open_editors
                    THEN ce'.gutter = ce.gutter \ {<<f, o>>}
                    ELSE ce' = ce
      ]_vars

\* A breakpoint was added while the editor of its file was open.
C22_Witness ==
    /\ Has(log, "on_breakpoint_added")
    /\ ce._open_editors # {} /\ ce.gutter = table /\ table # {}
    /\ dbg.breakpoints_json = table


\* ------------------------------------------------------------------------
\* What the two emulator buttons show: the pause button offers "pause"
\* exactly while the controls present a running game.
ButtonsShowRunning(w) ==
    w.mc.btn_pause = "img_pause" /\ w.mc.btn_playstop = "img_stop"

\* A loadstate that restored both the native snapshot and the document.
LoadSucceeded(l) ==
    /\ Handler(l) = "loadstate"
    /\ Has(l, "emu.savestate.load_file")
    /\ Has(l, "ges.deserialize")

\* C23: after a successful load of a slot the running state the controls
\* show agrees with the emulator's actual running state and with
\* MainController.emu_is_running.  (The slot holds no is_running flag: the
\* controls are set from the running state read before the reset.)
C23_ControlsAgreeAfterLoad ==
    [][LoadSucceeded(log')
          => /\ mc'._emu_is_running = emu'.running
             /\ ButtonsShowRunning(World') = emu'.running]_vars


\* ------------------------------------------------------------------------
\* C24: a run of the refresh task goes to sleep for REDRAW_DELAY frame
\* periods, to resubmit itself, if and only if the overlay is enabled and
\* refreshing is allowed; with the overlay disabled the chain ends.
C24_RefreshChainStopsWhenDisabled ==
    [][Handler(log') = "_update_cache"
          => /\ (ov'.sleeping = ov.sleeping + 1)
                    <=> (ov.enabled /\ ov._refresh_cache)
             /\ (ov'.sleeping = ov.sleeping)
                    <=> ~ov'._cache_redrawing_registered]_vars


\* ------------------------------------------------------------------------
\* The overlay cache under its lock: the renderer's draw and the refresh
\* task take debug_overlay_lock step by step while the game moves its
\* entities, halts at breakpoints and is reset.  The emulator thread does
\* one thing at a time (thr.at), and so does the UI thread (mc.at.pc).
EmuFree == thr.at = "idle"

UiFree == mc.at.pc = "idle"

\* The refresh task is run by the loop, or by the halted hook's
\* run_one_pending_task.
RefreshTakesLock ==
    /\ thr.alive /\ EmuFree /\ thr.pc # "cycle" /\ ov.queued > 0
    /\ ov.debug_overlay_lock = NoHolder
    /\ Commit(Note(acquire([World EXCEPT !.thr.at = "_update_cache"],
                           "debug_overlay_lock", "emu"), "with debug_overlay_lock"))

RefreshWakes ==
    /\ thr.alive /\ EmuFree /\ thr.pc # "cycle" /\ ov.sleeping > 0
    /\ thr.start_lock = NoHolder
    /\ Commit(Note(acquire([World EXCEPT !.thr.at = "run_task"],
                           "start_lock", "emu"), "run_task"))

CacheCycleBegin == EmuFree /\ EmuCycleBegin

CacheSsbLoad == EmuFree /\ EmuSsbLoad

CacheEntities == EmuFree /\ EmuEntities

CacheOpcode == EmuFree /\ EmuOpcode

CacheCycleEnd == EmuFree /\ EmuCycleEnd

CacheHookReturn == EmuFree /\ HookReturn

CachePlayStop == UiFree /\ EmuFree /\ PlayStopClicked

CachePause == UiFree /\ EmuFree /\ PauseClicked

CacheReset == UiFree /\ EmuFree /\ ResetClicked

CacheToggled == UiFree /\ OverlayToggled

InitCache ==
    Commit0([InitWorld(TRUE, Disk(NoSave)) EXCEPT
                !.table = PersistedTable,
                !.dbg.breakpoints_json = PersistedTable])

NextCache ==
    \/ DrawEnters
    \/ DrawTakesStartLock
    \/ DrawSubmitted
    \/ DrawLeaves
    \/ RefreshTakesLock
    \/ CacheLeaves
    \/ RefreshWakes
    \/ CacheResubmitted
    \/ CacheCycleBegin
    \/ CacheSsbLoad
    \/ CacheEntities
    \/ CacheOpcode
    \/ CacheCycleEnd
    \/ CacheHookReturn
    \/ CachePlayStop
    \/ CachePause
    \/ CacheReset
    \/ CacheToggled

SpecCache == InitCache /\ [][NextCache]_vars

\* The overlay cache: the four collections and the validity flag.
Cache(o) == <<Caches(o), o._cache_running>>

\* The renderer is inside draw before or after the step.
InDraw(at) == at.pc \in {"draw", "draw.run_task", "draw.paint"}

\* C25: no step of draw, for either display and whether the overlay is
\* enabled or a breakpoint halt is in progress, changes the four
\* bounding-box collections or _cache_running; a step that changes them is
\* a step of the refresh task, taken while the emulator thread holds
\* debug_overlay_lock.
C25_DrawLeavesCache ==
    [][ /\ (InDraw(mc.at) \/ InDraw(mc'.at)) => Cache(ov') = Cache(ov)
        /\ Cache(ov') # Cache(ov)
              => /\ Handler(log') = "_update_cache"
                 /\ thr.at = "_update_cache"
                 /\ ov.debug_overlay_lock = "emu"
                 /\ ~InDraw(mc.at)
      ]_vars

\* A draw of the debug screen that paints cached boxes during a halt, after
\* the refresh task has rebuilt the cache.
C25_Witness ==
    /\ Has(log, "draw boxes")
    /\ mc.at = Idle
    /\ ~ov._refresh_cache
    /\ ov._actor_bbox_cache # <<>>


\* The boxes of the entities of GroundEngineState g.
BoxesOf(g) == <<BBoxes(g.actors), BBoxes(g.objects),
                BBoxes(g.performers), BBoxes(g.events)>>

\* C26: _cache_running is what the most recent run of the refresh task
\* read from GroundEngineState.running; while it is false no draw paints a
\* bounding box; and the collections are rebuilt only by a run that
\* observed running = true, from the entities of that state.
C26_StoppedEngineNotDrawn ==
    [][ /\ IF Handler(log') = "_update_cache"
           THEN /\ ov'._cache_running = ges.running
                /\ Caches(ov') = IF ges.running THEN BoxesOf(ges) ELSE Caches(ov)
           ELSE Cache(ov') = Cache(ov)
        /\ Has(log', "draw boxes")
              => /\ InDraw(mc.at) /\ mc.at.display = 1
                 /\ ov._cache_running
      ]_vars

\* The renderer is inside a draw of the debug screen while the cache holds
\* boxes of an engine that the last refresh found stopped.
C26_Witness ==
    /\ mc.at.pc = "draw" /\ mc.at.display = 1 /\ ov.enabled
    /\ ~ov._cache_running /\ ~ges.running
    /\ ov._actor_bbox_cache # <<>>


\* ------------------------------------------------------------------------
\* _emu_cycle and register_main_loop statement by statement: the frame
\* counter, the display buffer snapshot and registered_main_loop, with the
\* renderer and the status bar reading from the UI thread.
\*   emu.ticks              emu.get_ticks(), milliseconds
\*   emu.frame              the frame the emulator has produced last
\*   thr._display_buffer    the frame the snapshot shows
\*   thr.at, mc.at.pc       where the two threads are
TICKS_PER_FRAME == 17

\* The length of a second in ticks (the literal of _emu_cycle).
OneSecond == 1000

\* A frame that takes long (the game loads, the machine is busy).
LongFrame == 500

MaxTicks == 1200

\* emu.cycle() and the wait that follows it take at least TICKS_PER_FRAME.
Durations == {TICKS_PER_FRAME, LongFrame}

\* The frame counter as current_frame_id's docstring has it: reset after
\* 1000 frames.
count_frame_resets_every_1000_frames(w) ==
    LET w1 == [w EXCEPT !.thr._fps_frame_count = @ + 1]
        w2 == IF w1.thr._fps_sec_start = 0
              THEN [w1 EXCEPT !.thr._fps_sec_start = w1.emu.ticks]
              ELSE w1
    IN  IF w2.thr._fps_frame_count >= OneSecond
        THEN [w2 EXCEPT !.thr._fps_sec_start = w2.emu.ticks,
                        !.thr._fps = w2.thr._fps_frame_count,
                        !.thr._fps_frame_count = 0]
        ELSE w2

\* _emu_cycle, the body of with fps_frame_count_lock.
count_frame(w) ==
    LET w1 == [w EXCEPT !.thr._fps_frame_count = @ + 1]
        w2 == IF w1.thr._fps_sec_start = 0
              THEN [w1 EXCEPT !.thr._fps_sec_start = w1.emu.ticks]
              ELSE w1
    IN  IF w2.emu.ticks - w2.thr._fps_sec_start >= OneSecond
        THEN [w2 EXCEPT !.thr._fps_sec_start = w2.emu.ticks,
                        !.thr._fps = w2.thr._fps_frame_count,
                        !.thr._fps_frame_count = 0]
        ELSE w2

\* A capture that is left out.
capture_skipped(w) == w

\* self._display_buffer = self.emu.display_buffer_as_rgbx()
capture(w) == [w EXCEPT !.thr._display_buffer = w.emu.frame]

\* _emu_cycle, its last statement when the emulator does not run.
chain_ends(w) == [w EXCEPT !.thr.registered_main_loop = FALSE, !.thr.at = "idle"]

\* A handler of the UI thread up to its call of register_main_loop, which
\* the thread then runs statement by statement (w1: the handler run whole).
before_register_main_loop(w, w1) ==
    IF Has(w1.log, "register_main_loop")
    THEN [w1 EXCEPT !.thr.pending = w.thr.pending,
                    !.thr.registered_main_loop = w.thr.registered_main_loop,
                    !.mc.at.pc = "register_main_loop"]
    ELSE w1

\* ---- the emulator thread
\* The loop calls _emu_cycle, which reads emu.is_running().
FrameEnters ==
    /\ thr.alive /\ EmuFree /\ thr.pc = "idle" /\ thr.pending > 0
    /\ Commit(Note([World EXCEPT !.thr.pending = @ - 1,
                                 !.thr.at = IF emu.running THEN "fps" ELSE "last"],
                   "_emu_cycle"))

FrameTakesFpsLock ==
    /\ thr.at = "fps" /\ thr.fps_frame_count_lock = NoHolder
    /\ Commit(Note(acquire([World EXCEPT !.thr.at = "counting"],
                           "fps_frame_count_lock", "emu"),
                   "with fps_frame_count_lock"))

FrameCounted ==
    /\ thr.at = "counting"
    /\ Commit(Note(release(count_frame([World EXCEPT !.thr.at = "cycle"]),
                           "fps_frame_count_lock"), "counted"))

\* emu.cycle(), the wait for the frame's time, call_later(_emu_cycle).
FrameSteps ==
    /\ thr.at = "cycle"
    /\ \E d \in Durations :
          /\ emu.ticks + d <= MaxTicks
          /\ Commit(Note([World EXCEPT !.emu.frame = @ + 1,
                                       !.emu.ticks = @ + d,
                                       !.thr.pending = @ + 1,
                                       !.thr.at = "display"],
                         "emu.cycle"))

FrameTakesDisplayLock ==
    /\ thr.at \in {"display", "last"} /\ thr.display_buffer_lock = NoHolder
    /\ Commit(Note(acquire([World EXCEPT !.thr.at = IF thr.at = "last"
                                                    THEN "capture (last)"
                                                    ELSE "capture"],
                           "display_buffer_lock", "emu"),
                   "with display_buffer_lock"))

FrameCaptured ==
    /\ thr.at \in {"capture", "capture (last)"}
    /\ Commit(Note(release(capture([World EXCEPT !.thr.at = IF thr.at = "capture"
                                                            THEN "idle"
                                                            ELSE "ending"]),
                           "display_buffer_lock"), "captured"))

FrameEndsChain ==
    /\ thr.at = "ending"
    /\ Commit(Note(chain_ends(World), "chain ends"))

\* Time passes while the emulator is paused.
TimePasses ==
    /\ ~emu.running /\ EmuFree /\ thr.pending = 0
    /\ emu.ticks + LongFrame <= MaxTicks
    /\ Commit(Note([World EXCEPT !.emu.ticks = @ + LongFrame], "time"))

\* ---- the UI thread
\* The buttons: each gateway call of the handler waits for the loop to be
\* between two callbacks.
CyclePlayStop ==
    /\ ~mc.quit /\ UiFree /\ EmuFree
    /\ \E auto \in BOOLEAN :
          Commit(before_register_main_loop(World,
                    on_emulator_controls_playstop_clicked(World, TRUE, auto)))

CyclePause ==
    /\ ~mc.quit /\ UiFree /\ EmuFree
    /\ Commit(before_register_main_loop(World,
                 on_emulator_controls_pause_clicked(World)))

CycleMenuOpen ==
    /\ ~mc.quit /\ UiFree /\ EmuFree
    /\ \E response \in {"OK", "CANCEL"}, romOk \in BOOLEAN :
          Commit(on_menu_open_activate(World, response, romOk))

RegisterTakesStartLock ==
    /\ mc.at.pc = "register_main_loop" /\ thr.start_lock = NoHolder
    /\ Commit(Note(acquire([World EXCEPT !.mc.at.pc = "register.if"],
                           "start_lock", "ui"), "register_main_loop"))

\* if not self.registered_main_loop: call_soon_threadsafe(self._emu_cycle)
RegisterSchedules ==
    /\ mc.at.pc = "register.if"
    /\ IF ~thr.registered_main_loop
       THEN Commit(Note([World EXCEPT !.thr.pending = @ + 1,
                                      !.mc.at.pc = "register.set"],
                        "call_soon_threadsafe"))
       ELSE Commit(Note([World EXCEPT !.mc.at.pc = "register.release"],
                        "registered"))

RegisterSetsFlag ==
    /\ mc.at.pc = "register.set"
    /\ Commit(Note([World EXCEPT !.thr.registered_main_loop = TRUE,
                                 !.mc.at.pc = "register.release"],
                   "registered_main_loop = True"))

RegisterReleases ==
    /\ mc.at.pc = "register.release"
    /\ Commit(Note(release([World EXCEPT !.mc.at = Idle], "start_lock"),
                   "start_lock.release"))

\* display_buffer_as_rgbx() and current_frame_id, each @synchronized.
ReaderTakesLock ==
    /\ ~mc.quit /\ UiFree
    /\ \E l \in {"display_buffer_lock", "fps_frame_count_lock"} :
          /\ holder(World, l) = NoHolder
          /\ Commit(Note(acquire([World EXCEPT !.mc.at.pc = l], l, "ui"), l))

ReaderReads ==
    /\ mc.at.pc \in {"display_buffer_lock", "fps_frame_count_lock"}
    /\ Commit(Note(release([World EXCEPT !.mc.at = Idle], mc.at.pc),
                   IF mc.at.pc = "display_buffer_lock"
                   THEN "display_buffer_as_rgbx" ELSE "current_frame_id"))

InitCycle == Commit0(InitWorld(FALSE, Disk(NoSave)))

NextCycle ==
    \/ FrameEnters
    \/ FrameTakesFpsLock
    \/ FrameCounted
    \/ FrameSteps
    \/ FrameTakesDisplayLock
    \/ FrameCaptured
    \/ FrameEndsChain
    \/ TimePasses
    \/ CyclePlayStop
    \/ CyclePause
    \/ CycleMenuOpen
    \/ RegisterTakesStartLock
    \/ RegisterSchedules
    \/ RegisterSetsFlag
    \/ RegisterReleases
    \/ ReaderTakesLock
    \/ ReaderReads

SpecCycle == InitCycle /\ [][NextCycle]_vars


\* The emulator thread is inside _emu_cycle.
InCycle(t) == t.at \in {"fps", "counting", "cycle", "display", "last",
                        "capture", "capture (last)", "ending"}

Elapsed ==
    emu.ticks - (IF thr._fps_sec_start = 0 THEN emu.ticks ELSE thr._fps_sec_start)

InRegister(at) == at.pc \in {"register.if", "register.set", "register.release"}

\* C30: whenever no _emu_cycle is executing and no register_main_loop is in
\* progress, registered_main_loop is true if and only if one _emu_cycle is
\* pending on the loop; and in no state at all is the flag true with no
\* cycle pending or executing, however register_main_loop on the UI thread
\* and _emu_cycle on the emulator thread interleave.
C30_FlagMeansCyclePending ==
    /\ thr.pending \in {0, 1}
    /\ (~InCycle(thr) /\ ~InRegister(mc.at))
          => (thr.registered_main_loop <=> thr.pending = 1)
    /\ thr.registered_main_loop => (thr.pending = 1 \/ InCycle(thr))
    /\ (thr.pending = 1 /\ ~thr.registered_main_loop) => mc.at.pc = "register.set"


\* ------------------------------------------------------------------------
\* The end of EmulatorThread.run: run_forever is left by an exception.
\* KeyboardInterrupt and SystemExit are caught and run goes on to destroy
\* the emulator; any other exception leaves run, and the thread, at once.
Aborts == {"KeyboardInterrupt", "SystemExit", "RuntimeError"}

run_forever_raises(w, exc) ==
    LET w1 == Note([w EXCEPT !.thr.alive = FALSE, !.thr.phase = "finished"],
                   "run_forever raises")
    IN  IF exc \in {"KeyboardInterrupt", "SystemExit"}
        THEN emu_destroy_native(w1)
        ELSE Note(w1, exc)

LoopAborted ==
    /\ thr.alive
    /\ \E exc \in Aborts : Commit(run_forever_raises(World, exc))

InitAbort ==
    Commit0([InitWorld(TRUE, Disk(NoSave)) EXCEPT
                !.table = PersistedTable,
                !.dbg.breakpoints_json = PersistedTable])

NextAbort ==
    \/ EmuCycleBegin
    \/ EmuSsbLoad
    \/ EmuOpcode
    \/ EmuCycleEnd
    \/ HookReturn
    \/ PlayStopClicked
    \/ PauseClicked
    \/ LoopAborted

SpecAbort == InitAbort /\ [][NextAbort]_vars

\* C29: when the loop of the emulator thread is aborted while a
\* BreakpointState is pending (held and stopped), the state is hard-failed
\* and its release hooks have fired when the loop has ended, before the
\* emulator is destroyed.
C29_AbortFailsHardFirst ==
    [][ ( /\ Has(log', "run_forever raises")
          /\ mc.breakpoint_state # None
          /\ is_stopped(World, mc.breakpoint_state) )
        => /\ ~is_stopped(World', mc.breakpoint_state)
           /\ Has(log', "fail_hard")
           /\ Has(log', "emu.destroy") => Pos(log', "fail_hard") < Pos(log', "emu.destroy")
      ]_vars


\* ------------------------------------------------------------------------
\* File > Open among the emulator controls.
MenuOpenActivated ==
    /\ UiReady
    /\ \E response \in {"OK", "CANCEL"}, romOk \in BOOLEAN :
          Commit(on_menu_open_activate(World, response, romOk))

\* The menu and the emulator controls, with the game running in between.
InitMenu == Commit0(InitWorld(FALSE, Disk(NoSave)))

NextMenu ==
    \/ EmuCycleBegin
    \/ EmuSsbLoad
    \/ EmuCycleEnd
    \/ PlayStopClicked
    \/ PauseClicked
    \/ ResetClicked
    \/ SaveStateClicked
    \/ LoadStateClicked
    \/ MenuOpenActivated

SpecMenu == InitMenu /\ [][NextMenu]_vars

\* The handlers of the UI thread the statement names.
ControlHandlers == {"menu_open_activate", "playstop_clicked", "pause_clicked",
                    "reset_clicked", "savestate", "loadstate"}

\* C31: when a handler of the UI thread has returned, _emu_is_running is
\* the emulator's running state; and a resume (the pause button's
\* emu_resume) that finds the emulator paused calls emu.resume, so that the
\* emulator runs afterwards.
C31_FlagIsRunningState ==
    [][ /\ Handler(log') \in ControlHandlers
              => mc'._emu_is_running = emu'.running
        /\ (Handler(log') = "pause_clicked" /\ Has(log', "register_main_loop")
              /\ ~emu.running)
              => Has(log', "emu.resume") /\ emu'.running
      ]_vars


\* ------------------------------------------------------------------------
\* The controller's reference to the halt.

\* C32: MainController.breakpoint_state is non-empty exactly while a halt is
\* active: break_pulled sets it, the release hook clears it on resume and on
\* fail_hard alike, it never names a released or hard-failed state, and it is
\* never empty while some BreakpointState is still stopped.
C32_ReferenceIffHalted ==
    [][ /\ (mc'.breakpoint_state # None) <=> (Stopped(World') # {})
        /\ \A b \in bps' : b.state \in {"released", "failed"}
                              => mc'.breakpoint_state # b.id
        /\ Has(log', "on_break_pulled")
              => is_stopped(World', mc'.breakpoint_state)
        /\ (Has(log', "resume") \/ Has(log', "fail_hard")) /\ Stopped(World) # {}
              => /\ Has(log', "main.break_released")
                 /\ mc'.breakpoint_state = None
      ]_vars

\* C32's case: a halt was released by the user while a record of the released
\* state is still around, and the controller holds no reference.
C32_Witness ==
    /\ \E b \in bps : b.state = "released"
    /\ Has(log, "main.break_released")
    /\ mc.breakpoint_state = None


\* ------------------------------------------------------------------------
\* The refresh chain of the overlay, statement by statement: _update_cache
\* reads _refresh_cache after it has left its with block, while the UI
\* thread draws, halts and releases.
\*   thr.at = "_update_cache.if"     the task has left the with block
\*   thr.at = "_update_cache.else"   the task has read _refresh_cache as off

\* _update_cache, the with block: the cache is rebuilt from the engine state.
update_cache_with(w) ==
    LET g == w.ges
        w1 == Note([w EXCEPT !.ov.queued = @ - 1, !.ov._cache_running = g.running],
                   "_update_cache")
    IN  IF w1.ov._cache_running
        THEN [w1 EXCEPT !.ov._actor_bbox_cache = BBoxes(g.actors),
                        !.ov._object_bbox_cache = BBoxes(g.objects),
                        !.ov._perf_bbox_cache = BBoxes(g.performers),
                        !.ov._event_bbox_cache = BBoxes(g.events)]
        ELSE w1

\* if self._refresh_cache: the task goes to sleep, or takes the else branch.
update_cache_if(w) ==
    IF w.ov._refresh_cache
    THEN Note([w EXCEPT !.ov.sleeping = @ + 1, !.thr.at = "idle"], "asyncio.sleep")
    ELSE Note([w EXCEPT !.thr.at = "_update_cache.else"], "else")

\* self._cache_redrawing_registered = False
update_cache_else(w) ==
    Note([w EXCEPT !.ov._cache_redrawing_registered = FALSE, !.thr.at = "idle"],
         "chain ends")

TaskRebuilds ==
    /\ thr.alive /\ thr.at = "idle" /\ ov.queued > 0
    /\ Commit([update_cache_with(World) EXCEPT !.thr.at = "_update_cache.if"])

TaskReadsFlag ==
    /\ thr.at = "_update_cache.if"
    /\ Commit(update_cache_if(World))

TaskEndsChain ==
    /\ thr.at = "_update_cache.else"
    /\ Commit(update_cache_else(World))

TaskWakes ==
    /\ thr.alive /\ thr.at = "idle" /\ ov.sleeping > 0
    /\ Commit(update_cache_resubmit(World))

\* The renderer draws the screen the overlay is painted on.
DrawOverlayScreen ==
    /\ ~mc.quit
    /\ Commit(overlay_draw(Note(World, "draw"), 1))

\* DebugOverlayController.break_pulled and break_released, called by
\* MainController when a halt begins and when it is released.
OverlayBreakPulled ==
    /\ ov._refresh_cache
    /\ Commit(overlay_break_pulled(Note(World, "overlay.break_pulled")))

OverlayBreakReleased ==
    /\ ~ov._refresh_cache
    /\ Commit(overlay_break_released(Note(World, "overlay.break_released")))

\* The game shows another scene.
SceneChanges ==
    \E s \in Scenes :
        /\ ges # EntitiesAt(ges, s)
        /\ Commit(Note([World EXCEPT !.ges = EntitiesAt(@, s)], "entities"))

InitRefresh ==
    \E enabled \in BOOLEAN :
        Commit0([InitWorld(FALSE, Disk(NoSave)) EXCEPT !.ov.enabled = enabled])

NextRefresh ==
    \/ Draw
    \/ OverlayToggled
    \/ OverlayBreakPulled
    \/ OverlayBreakReleased
    \/ SceneChanges
    \/ TaskRebuilds
    \/ TaskReadsFlag
    \/ TaskEndsChain
    \/ TaskWakes

\* The renderer keeps drawing the overlay screen, the emulator loop runs
\* every callback that is ready and every sleep ends.
SpecRefresh ==
    /\ InitRefresh /\ [][NextRefresh]_vars
    /\ WF_vars(DrawOverlayScreen)
    /\ WF_vars(TaskRebuilds) /\ WF_vars(TaskReadsFlag)
    /\ WF_vars(TaskEndsChain) /\ WF_vars(TaskWakes)

\* The refresh tasks that exist: queued, running or sleeping.
RefreshChains ==
    ov.queued + ov.sleeping
        + (IF thr.at \in {"_update_cache.if", "_update_cache.else"} THEN 1 ELSE 0)

\* C33: at most one overlay refresh chain (an _update_cache task that is
\* queued, running or sleeping) exists at any time, under every interleaving
\* of draw, break_pulled, break_released and the steps of the task; and once
\* break_released has been called, with the overlay enabled, no new halt and
\* draw being called again and again, a refresh eventually runs.
C33_OneRefreshChain ==
    /\ [](RefreshChains <= 1)
    /\ [](RefreshChains = 1 => ov._cache_redrawing_registered)
    /\ (Has(log, "overlay.break_released") /\ ov.enabled)
          ~> (Has(log, "_update_cache") \/ ~ov.enabled \/ ~ov._refresh_cache)

\* C33's case: the chain ended during a halt and break_released has just
\* been called with the overlay enabled: only a draw can start a refresh.
C33_Witness ==
    /\ Has(log, "overlay.break_released") /\ ov.enabled
    /\ RefreshChains = 0 /\ ~ov._cache_redrawing_registered


\* ------------------------------------------------------------------------
\* The editor tabs: the user opens scripts from the file tree and closes
\* tabs while the game runs into breakpoints and is released.
Scripts == Files \cup {"map01/enter.ssb"}

OpenTab ==
    /\ ~mc.quit
    /\ \E f \in Scripts : Commit(open(Note(World, "open_file"), f))

CloseTab ==
    /\ ~mc.quit
    /\ \E f \in ce._open_editors, response \in Responses, closes \in BOOLEAN :
          Commit(close_tab(World, f, response, closes))

InitEditors ==
    Commit0([InitWorld(TRUE, Disk(NoSave)) EXCEPT
                !.table = PersistedTable,
                !.dbg.breakpoints_json = PersistedTable])

NextEditors ==
    \/ OpenTab
    \/ CloseTab
    \/ EmuCycleBegin
    \/ EmuSsbLoad
    \/ EmuOpcode
    \/ EmuCycleEnd
    \/ HookReturn
    \/ PlayStopClicked
    \/ PauseClicked
    \/ ResetClicked

SpecEditors == InitEditors /\ [][NextEditors]_vars

\* The file the game is halted in, if it is.
HaltedFiles(w) == {w.ges.loaded_ssb_files[b.hanger_id] : b \in Stopped(w)}

\* C34: after any sequence of open, close_tab, break_pulled and
\* break_released, an open editor has its debugging controls enabled and
\* shows a halted-opcode mark exactly if a halt is active and the editor's
\* file is the halted file, editors opened during the halt included; the
\* mark is at the opcode the halt began at; after break_released no editor
\* has its debugging controls enabled.
C34_ControlsFollowHalt ==
    [][ /\ \A f \in ce'._open_editors :
              /\ f \in ce'.controls <=> f \in HaltedFiles(World')
              /\ (\E m \in ce'.marks : m[1] = f) <=> f \in HaltedFiles(World')
        /\ ce'.controls \subseteq ce'._open_editors
        /\ ce'.marks \subseteq {<<ce'._cached_active_halted_filename,
                                  ce'._cached_active_halted_opcode>>}
        /\ Has(log', "on_break_pulled")
              => /\ ce'._cached_active_halted_opcode = arg'.offset
                 /\ ce'._cached_active_halted_filename \in ce'.controls
        /\ (Stopped(World) # {} /\ Stopped(World') # {})
              => ce'._cached_active_halted_opcode = ce._cached_active_halted_opcode
        /\ Has(log', "code_editor.break_released") => ce'.controls = {}
      ]_vars

\* C34's case: the editor of the halted file was closed and opened again
\* during the halt, next to the editor of another file.
C34_Witness ==
    /\ Handler(log) = "open_file" /\ Has(log, "open")
    /\ \E f \in HaltedFiles(World) : f \in ce.controls
    /\ Cardinality(ce._open_editors) >= 2


\* ------------------------------------------------------------------------
\* The notebook of the code editor and its two maps: tabs are opened next
\* to the current page, edited, closed from any position and selected by
\* the user.
AllScripts == Scripts \cup {"map02/script.ssb"}

\* The property currently_open: the editor of the current page.
currently_open(w) ==
    IF w.ce.current > -1
    THEN IF w.ce.current \in Keys(w.ce._open_editors_by_page_num)
         THEN Note(w, (CHOOSE e \in w.ce._open_editors_by_page_num :
                          e[1] = w.ce.current)[2])
         ELSE Note(w, "KeyError")
    ELSE Note(w, "None")

OpenAnyTab ==
    /\ ~mc.quit
    /\ \E f \in AllScripts : Commit(open(Note(World, "open_file"), f))

\* The user edits the text of an open editor.
EditorModified ==
    /\ ~mc.quit
    /\ \E f \in ce._open_editors \ ce.has_changes :
          Commit(Note([World EXCEPT !.ce.has_changes = @ \cup {f}], "modified"))

\* The user selects another tab.
SwitchPage ==
    /\ ~mc.quit
    /\ \E n \in 0..(Len(ce.pages) - 1) :
          /\ n # ce.current
          /\ Commit(Note(set_current_page(World, n), "switch-page"))

\* A menu or toolbar handler asks for the editor in front.
ReadsCurrentlyOpen ==
    /\ ~mc.quit
    /\ Commit(currently_open(Note(World, "currently_open")))

InitNotebook == Commit0(InitWorld(FALSE, Disk(NoSave)))

NextNotebook ==
    \/ OpenAnyTab
    \/ CloseTab
    \/ EditorModified
    \/ SwitchPage
    \/ ReadsCurrentlyOpen

SpecNotebook == InitNotebook /\ [][NextNotebook]_vars

\* C35: after any sequence of open and close_tab, with tabs inserted right
\* after the current page and removed from any position,
\* _open_editors_by_page_num maps every page number of the notebook to the
\* editor shown on that page and holds exactly the editors of _open_editors,
\* so that currently_open returns the editor of the current page and never
\* fails.
C35_PageMapFollowsNotebook ==
    /\ ce._open_editors_by_page_num
          = {<<n - 1, ce.pages[n]>> : n \in 1..Len(ce.pages)}
    /\ {e[2] : e \in ce._open_editors_by_page_num} = ce._open_editors
    /\ Handler(log) = "currently_open"
          => /\ ~Has(log, "KeyError")
             /\ ce.current > -1 => Has(log, ce.pages[ce.current + 1])

\* C36: close_tab on an editor with unsaved changes asks: Save saves and then
\* closes the tab, Don't Save closes it without saving, Cancel leaves the tab
\* open and the maps unchanged; a tab the file manager refuses to close
\* (close_in_editor false) stays open with the maps unchanged.
C36_CloseAsksFirst ==
    [][ Handler(log') = "close_tab"
        => LET kept == /\ ce'.pages = ce.pages
                       /\ ce'._open_editors = ce._open_editors
                       /\ ce'._open_editors_by_page_num = ce._open_editors_by_page_num
               closed == \/ /\ Len(ce'.pages) = Len(ce.pages) - 1
                            /\ Cardinality(ce'._open_editors)
                                  = Cardinality(ce._open_editors) - 1
                         \/ Has(log', "close_in_editor refuses")
           IN  /\ Has(log', "Save") => Has(log', "controller.save") /\ closed
               /\ Has(log', "Don't Save") => ~Has(log', "controller.save") /\ closed
               /\ Has(log', "Cancel") => ~Has(log', "controller.save") /\ kept
               /\ Has(log', "close_in_editor refuses") => kept
      ]_vars


\* ------------------------------------------------------------------------
\* emu_pause called in any state, by the pause button or by another
\* controller holding the MainController.
EmuPauseCalled ==
    /\ ~mc.quit
    /\ Commit(emu_pause(Note(World, "emu_pause")))

InitPause ==
    Commit0([InitWorld(TRUE, Disk(NoSave)) EXCEPT
                !.table = PersistedTable,
                !.dbg.breakpoints_json = PersistedTable])

NextPause ==
    \/ EmuCycleBegin
    \/ EmuSsbLoad
    \/ EmuOpcode
    \/ EmuCycleEnd
    \/ HookReturn
    \/ PlayStopClicked
    \/ PauseClicked
    \/ OpenTab
    \/ EmuPauseCalled

SpecPause == InitPause /\ [][NextPause]_vars

\* C37: emu_pause called while a BreakpointState is held and stopped does
\* nothing: the emulator is not paused, and _emu_is_running, the
\* BreakpointState, the views and the buttons are as before.
C37_PauseDuringHaltIsNoOp ==
    [][ (Handler(log') = "emu_pause" /\ is_stopped(World, mc.breakpoint_state))
        => /\ ~Has(log', "emu.pause")
           /\ emu' = emu /\ thr' = thr
           /\ mc' = mc /\ bps' = bps
           /\ ges' = ges /\ ce' = ce /\ ov' = ov /\ dbg' = dbg
      ]_vars

\* C37's case: emu_pause has been called during a halt.
C37_Witness ==
    /\ Handler(log) = "emu_pause"
    /\ is_stopped(World, mc.breakpoint_state)
    /\ emu.running /\ mc._emu_is_running


\* ------------------------------------------------------------------------
\* Shutdown: the window is destroyed or Quit is chosen (on_main_window_destroy
\* and gtk_main_quit have the same body), or the host ends the thread with
\* EmulatorThread.end, while the game may be running.
\*   mc.at.pc = "quit.result"   the UI thread waits for the destroy task
DestroyTask == [kind |-> "destroy", blocking |-> TRUE, raises |-> FALSE]

\* on_main_window_destroy / gtk_main_quit up to the blocking gateway call.
quit_begins(w) ==
    LET w0 == Note(w, "window_destroy")
        w1 == IF w0.mc.breakpoint_state # None
              THEN fail_hard(w0, w0.mc.breakpoint_state)
              ELSE w0
    IN  [run_task(w1, DestroyTask) EXCEPT !.mc.at.pc = "quit.result"]

\* ... and from the result of the gateway call on: stop(), Gtk.main_quit().
quit_stops(w) ==
    Note([stop(result(w)) EXCEPT !.mc.quit = TRUE], "Gtk.main_quit")

\* EmulatorThread.end
end(w) == stop(Note(w, "end"))

QuitBegins ==
    /\ ~mc.quit /\ UiFree /\ thr.start_lock = NoHolder
    /\ Commit(quit_begins(World))

QuitStops ==
    /\ mc.at.pc = "quit.result" /\ thr.future # "pending"
    /\ thr.start_lock = NoHolder
    /\ Commit(quit_stops(World))

ThreadEnds ==
    /\ ~mc.quit /\ UiFree /\ thr.start_lock = NoHolder
    /\ \A i \in 1..Len(thr.queue) : thr.queue[i].kind # "stop"
    /\ thr.phase = "running"
    /\ Commit(end(World))

ShutdownLoopRuns == thr.pc = "idle" /\ LoopRuns

ShutdownCycleBegin == thr.phase = "running" /\ EmuCycleBegin

ShutdownCycleEnd == thr.phase = "running" /\ EmuCycleEnd

ShutdownSsbLoad == thr.phase = "running" /\ EmuSsbLoad

ShutdownOpcode == thr.phase = "running" /\ EmuOpcode

ShutdownHookReturn == thr.phase = "running" /\ HookReturn

ShutdownPlayStop == UiFree /\ thr.phase = "running" /\ PlayStopClicked

ShutdownPause == UiFree /\ thr.phase = "running" /\ PauseClicked

InitShutdown ==
    Commit0([InitWorld(TRUE, Disk(NoSave)) EXCEPT
                !.table = PersistedTable,
                !.dbg.breakpoints_json = PersistedTable])

NextShutdown ==
    \/ QuitBegins
    \/ QuitStops
    \/ ThreadEnds
    \/ ShutdownLoopRuns
    \/ ShutdownCycleBegin
    \/ ShutdownCycleEnd
    \/ ShutdownSsbLoad
    \/ ShutdownOpcode
    \/ ShutdownHookReturn
    \/ ShutdownPlayStop
    \/ ShutdownPause

SpecShutdown == InitShutdown /\ [][NextShutdown]_vars

\* C38: on every shutdown path (window destroy, Quit, EmulatorThread.end)
\* the native emulator is destroyed exactly once, on the emulator thread,
\* and nothing accesses the emulator after it was destroyed.
C38_DestroyedOnce ==
    [][ /\ Has(log', "emu.destroy")
           => /\ ~emu.destroyed
              /\ Count(log', "emu.destroy") = 1
              /\ Handler(log') \in {"task", "loop.stop"}
        /\ emu.destroyed => ~Has(log', "_emu_cycle")
        /\ thr'.phase = "finished" => emu'.destroyed
      ]_vars


\* ------------------------------------------------------------------------
\* start_lock from start() on: run() may raise before it has created the
\* loop (display_buffer_as_rgbx, asyncio.new_event_loop or nest_asyncio.apply
\* fail); nothing in run() catches that, and the thread ends.
run_raises(w) ==
    Note([w EXCEPT !.thr._thread_instance = "emu", !.thr.phase = "finished"],
         "run raises")

ThreadRunFails ==
    /\ thr.phase = "started"
    /\ Commit(run_raises(World))

NextStart ==
    \/ ThreadStart
    \/ ThreadRun
    \/ ThreadRunFails
    \/ UiEnters
    \/ UiStop
    \/ UiRegisterMainLoop
    \/ UiRunTask
    \/ UiResult
    \/ LoopRuns

\* The started thread runs, the loop runs its callbacks, and a thread
\* waiting for a free lock gets it.
SpecStart ==
    /\ InitThread /\ [][NextStart]_vars
    /\ WF_vars(ThreadRun \/ ThreadRunFails)
    /\ WF_vars(LoopRuns) /\ WF_vars(UiResult)
    /\ WF_vars(UiStop) /\ WF_vars(UiRegisterMainLoop) /\ WF_vars(UiRunTask)

\* The queue of the model is full: a call that would add to it waits.
AtQueueBound ==
    mc.at.op \in {"stop", "run_task"} /\ Len(thr.queue) >= MaxQueue

\* C39: start_lock is always released again: after start(), every call to
\* stop, register_main_loop or run_task eventually acquires the lock and
\* returns, also when run() fails before its event loop is created.
C39_StartLockReleased ==
    (mc.at.pc = "acquire") ~> (mc.at.pc # "acquire" \/ AtQueueBound)

=============================================================================
